----------------------------- MODULE Renderers -----------------------------
(***************************************************************************)
(* The cases that compose, and the pair of documents that is rendered for  *)
(* one of them from the material of its kernel: what the server expects    *)
(* and what the client presents.  Ports, addresses, routing, logging and   *)
(* bandwidth are left out: they are arguments, or the same for all cases.  *)
(*                                                                         *)
(* Material is a record: the client id (the password of ShadowsocksR), the *)
(* pinned certificate, the REALITY pair and the VLESS Encryption pair.  A  *)
(* pair of keys is one value: the server holds one half, the client the    *)
(* other.  A secret derived by hashing is the tuple of what is hashed.     *)
(***************************************************************************)

CONSTANT None      \* a key pair or a parameter that is not there

Xray == "xray-core"
Hysteria2 == "hysteria2"
Native == "shadowsocksr-native"
Cores == {Xray, Hysteria2, Native}

-----------------------------------------------------------------------------
(* Composition *)

NoParameters == [name \in {} |-> {}]

Rule(protocol, core, outers, transport, encryption, parameters) ==
    [protocol |-> protocol, core |-> core, outers |-> outers, transport |-> transport,
     encryption |-> encryption, parameters |-> parameters]

Rules ==
    {Rule("shadowsocks", Xray, {"tcp", "udp"}, "raw", "shadowsocks-2022",
          [cipher |-> {"2022-blake3-aes-128-gcm"}]),
     Rule("shadowsocksr", Native, {"tcp"}, "raw", "none",
          [cipher |-> {"aes-256-cfb"}, protocol_plugin |-> {"auth_aes128_md5", "auth_aes128_sha1"},
           obfs |-> {"tls1.2_ticket_auth"}]),
     Rule("vmess", Xray, {"tcp"}, "websocket", "tls", NoParameters),
     Rule("vmess", Xray, {"tcp"}, "xhttp", "tls",
          [xhttp_mode |-> {"stream-up"}, http_version |-> {"h2"}]),
     Rule("vless", Xray, {"tcp"}, "raw", "reality", [flow |-> {"xtls-rprx-vision"}]),
     Rule("vless", Xray, {"tcp"}, "xhttp", "reality",
          [xhttp_mode |-> {"stream-up"}, flow |-> {"xtls-rprx-vision"}, vless_encryption |-> {"true"}]),
     Rule("trojan", Xray, {"tcp"}, "raw", "tls", NoParameters),
     Rule("trojan", Xray, {"tcp"}, "websocket", "tls", NoParameters),
     Rule("hysteria2", Hysteria2, {"udp"}, "quic", "tls", NoParameters),
     Rule("hysteria2", Hysteria2, {"udp"}, "quic", "tls", [obfs |-> {"salamander"}])}

\* A case gives every parameter of its rule one of the allowed values.
Allowed(rule) ==
    {p \in [DOMAIN rule.parameters -> UNION {rule.parameters[n] : n \in DOMAIN rule.parameters}] :
        \A n \in DOMAIN p : p[n] \in rule.parameters[n]}

Composed(rule) ==
    {[protocol |-> rule.protocol, core |-> rule.core, outer |-> outer, transport |-> rule.transport,
      encryption |-> rule.encryption, parameters |-> p] : outer \in rule.outers, p \in Allowed(rule)}

ComposableCases == UNION {Composed(rule) : rule \in Rules}

Parameter(c, name) == IF name \in DOMAIN c.parameters THEN c.parameters[name] ELSE None

NeedsReality(c) == c.encryption = "reality"
NeedsVlessEncryption(c) == Parameter(c, "vless_encryption") = "true"

-----------------------------------------------------------------------------
(* Parts of a document *)

User(secret) == [secret |-> secret, flow |-> None, cipher |-> None]

Stream(method) == [method |-> method, path |-> None, mode |-> None, alpn |-> None]
Websocket(m) == [Stream("websocket") EXCEPT !.path = <<"/assets", m.id>>, !.alpn = "http/1.1"]
Xhttp(m, mode) == [Stream("xhttp") EXCEPT !.path = <<"/xhttp", m.id>>, !.mode = mode]

\* Security of a side: what it is, and what it holds of it.  The server's
\* certificate and key are the files of the secrets directory.
Plain == [kind |-> "none", holds |-> None]
Files == [kind |-> "tls", holds |-> None]
Pinned(m) == [kind |-> "tls", holds |-> m.pin]
Reality(m) == [kind |-> "reality", holds |-> m.reality]

Document(protocol, user, stream, security) ==
    [protocol |-> protocol, user |-> user, stream |-> stream, security |-> security]

-----------------------------------------------------------------------------
(* Xray *)

Shadowsocks2022(c, m) ==
    Document("shadowsocks", User(<<"ss2022", c.outer, m.id>>),
             [Stream("raw") EXCEPT !.mode = c.outer], Plain)
Shadowsocks2022Server(c, m) == Shadowsocks2022(c, m)
Shadowsocks2022Client(c, m) == Shadowsocks2022(c, m)

VmessWebsocketTlsServer(m) == Document("vmess", User(m.id), Websocket(m), Files)
VmessWebsocketTlsClient(m) == Document("vmess", User(m.id), Websocket(m), Pinned(m))

XhttpH2(c, m) == [Xhttp(m, Parameter(c, "xhttp_mode")) EXCEPT !.alpn = Parameter(c, "http_version")]
VmessXhttpH2TlsServer(c, m) == Document("vmess", User(m.id), XhttpH2(c, m), Files)
VmessXhttpH2TlsClient(c, m) == Document("vmess", User(m.id), XhttpH2(c, m), Pinned(m))

Vision(m, cipher) == [User(m.id) EXCEPT !.flow = "xtls-rprx-vision", !.cipher = cipher]
VlessRealityServer(m) == Document("vless", Vision(m, None), Stream("raw"), Reality(m))
VlessRealityClient(m) == Document("vless", Vision(m, None), Stream("raw"), Reality(m))

VlessXhttpRealityServer(c, m) ==
    Document("vless", Vision(m, m.vless), Xhttp(m, Parameter(c, "xhttp_mode")), Reality(m))
VlessXhttpRealityClient(c, m) ==
    Document("vless", Vision(m, m.vless), Xhttp(m, Parameter(c, "xhttp_mode")), Reality(m))

TrojanUser(m) == User(<<"trojan", m.id>>)
TrojanRawTlsServer(m) == Document("trojan", TrojanUser(m), Stream("raw"), Files)
TrojanRawTlsClient(m) == Document("trojan", TrojanUser(m), Stream("raw"), Pinned(m))

TrojanWebsocketTlsServer(m) == Document("trojan", TrojanUser(m), Websocket(m), Files)
\* Mutant of TrojanWebsocketTlsClient: the path helper of the other transport.
TrojanXhttpPathClient(m) ==
    Document("trojan", TrojanUser(m), [Websocket(m) EXCEPT !.path = <<"/xhttp", m.id>>], Pinned(m))
TrojanWebsocketTlsClient(m) == Document("trojan", TrojanUser(m), Websocket(m), Pinned(m))

\* Renderers are chosen by protocol, transport and encryption.
Composition(c) == <<c.protocol, c.transport, c.encryption>>

RenderXrayServer(c, m) ==
    CASE Composition(c) = <<"shadowsocks", "raw", "shadowsocks-2022">> -> Shadowsocks2022Server(c, m)
      [] Composition(c) = <<"vmess", "websocket", "tls">> -> VmessWebsocketTlsServer(m)
      [] Composition(c) = <<"vmess", "xhttp", "tls">> -> VmessXhttpH2TlsServer(c, m)
      [] Composition(c) = <<"vless", "raw", "reality">> -> VlessRealityServer(m)
      [] Composition(c) = <<"vless", "xhttp", "reality">> -> VlessXhttpRealityServer(c, m)
      [] Composition(c) = <<"trojan", "raw", "tls">> -> TrojanRawTlsServer(m)
      [] Composition(c) = <<"trojan", "websocket", "tls">> -> TrojanWebsocketTlsServer(m)

RenderXrayClient(c, m) ==
    CASE Composition(c) = <<"shadowsocks", "raw", "shadowsocks-2022">> -> Shadowsocks2022Client(c, m)
      [] Composition(c) = <<"vmess", "websocket", "tls">> -> VmessWebsocketTlsClient(m)
      [] Composition(c) = <<"vmess", "xhttp", "tls">> -> VmessXhttpH2TlsClient(c, m)
      [] Composition(c) = <<"vless", "raw", "reality">> -> VlessRealityClient(m)
      [] Composition(c) = <<"vless", "xhttp", "reality">> -> VlessXhttpRealityClient(c, m)
      [] Composition(c) = <<"trojan", "raw", "tls">> -> TrojanRawTlsClient(m)
      [] Composition(c) = <<"trojan", "websocket", "tls">> -> TrojanWebsocketTlsClient(m)

\* What the renderers refuse: no keys for REALITY, no pair for VLESS over XHTTP.
Renders(c, m) ==
    /\ c.encryption = "reality" => m.reality # None
    /\ Composition(c) = <<"vless", "xhttp", "reality">> => m.vless # None

-----------------------------------------------------------------------------
(* Hysteria 2 and ShadowsocksR *)

Salamander(c, m) ==
    IF Parameter(c, "obfs") = "salamander" THEN <<"salamander", m.id>> ELSE None

Hysteria2User(c, m) == [User(<<"auth", m.id>>) EXCEPT !.cipher = Salamander(c, m)]
Hysteria2Server(c, m) == Document("hysteria2", Hysteria2User(c, m), Stream("quic"), Files)
Hysteria2Client(c, m) == Document("hysteria2", Hysteria2User(c, m), Stream("quic"), Pinned(m))

ShadowsocksR(c, m) ==
    Document("shadowsocksr", User(m.id),
             [Stream("raw") EXCEPT !.mode = Parameter(c, "protocol_plugin")], Plain)

RenderServer(c, m) ==
    CASE c.core = Xray -> RenderXrayServer(c, m)
      [] c.core = Hysteria2 -> Hysteria2Server(c, m)
      [] c.core = Native -> ShadowsocksR(c, m)

RenderClient(c, m) ==
    CASE c.core = Xray -> RenderXrayClient(c, m)
      [] c.core = Hysteria2 -> Hysteria2Client(c, m)
      [] c.core = Native -> ShadowsocksR(c, m)

-----------------------------------------------------------------------------
\* A server with its document, its certificate and its key serves a client
\* with the other document: what the kernels check of each other.
Serves(server, client, certificate, key) ==
    /\ server.protocol = client.protocol
    /\ server.user = client.user
    /\ server.stream = client.stream
    /\ server.security.kind = client.security.kind
    /\ server.security.kind = "tls" => client.security.holds = certificate /\ key = certificate
    /\ server.security.kind = "reality" => client.security.holds = server.security.holds
=============================================================================
