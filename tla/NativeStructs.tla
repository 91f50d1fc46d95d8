--------------------------- MODULE NativeStructs ---------------------------
(***************************************************************************)
(* The C++ structs of openvpn::ClientAPI that a session uses, with the     *)
(* kind of each field: what the JNI functions to set and get it convert.   *)
(***************************************************************************)
EXTENDS Naturals, TLC, Records

-----------------------------------------------------------------------------
(* Config, in the order of the file.                                       *)

ContentFields ==
  [content |-> "string", contentList |-> "object",
   guiVersion |-> "string", ssoMethods |-> "string"]

ServerFields ==
  [hwAddrOverride |-> "string", platformVersion |-> "string",
   serverOverride |-> "string", portOverride |-> "string"]

TransportFields ==
  [protoOverride |-> "string", ipv6 |-> "string",
   connTimeout |-> "int", tunPersist |-> "bool"]

LookupFields ==
  [googleDnsFallback |-> "bool", synchronousDnsLookup |-> "bool",
   autologinSessions |-> "bool", retryOnAuthFailed |-> "bool",
   externalPkiAlias |-> "string"]

KeyFields ==
  [disableClientCert |-> "bool", sslDebugLevel |-> "int",
   compressionMode |-> "string", privateKeyPassword |-> "string"]

TlsFields ==
  [defaultKeyDirection |-> "int", forceAesCbcCiphersuites |-> "bool",
   tlsVersionMinOverride |-> "string", tlsCertProfileOverride |-> "string"]

ProxyFields ==
  [peerInfo |-> "object", proxyHost |-> "string",
   proxyPort |-> "string", proxyUsername |-> "string"]

PasswordFields ==
  [proxyPassword |-> "string", proxyAllowCleartextAuth |-> "bool",
   altProxy |-> "bool", dco |-> "bool", echo |-> "bool"]

TickFields ==
  [info |-> "bool", allowLocalLanAccess |-> "bool", clockTickMS |-> "unsigned",
   gremlinConfig |-> "string", wintun |-> "bool"]

Config ==
  ContentFields ++ ServerFields ++ TransportFields ++ LookupFields ++ KeyFields
    ++ TlsFields ++ ProxyFields ++ PasswordFields ++ TickFields

-----------------------------------------------------------------------------
(* EvalConfig.                                                             *)

ProfileFields ==
  [error |-> "bool", message |-> "string",
   userlockedUsername |-> "string", profileName |-> "string"]

LoginFields ==
  [friendlyName |-> "string", autologin |-> "bool", externalPki |-> "bool",
   staticChallenge |-> "string"]

ChallengeFields ==
  [staticChallengeEcho |-> "bool", privateKeyPasswordRequired |-> "bool",
   allowPasswordSave |-> "bool", remoteHost |-> "string"]

RemoteFields ==
  [remotePort |-> "string", remoteProto |-> "string", serverList |-> "object"]

EvalConfig == ProfileFields ++ LoginFields ++ ChallengeFields ++ RemoteFields

-----------------------------------------------------------------------------
(* The others.                                                             *)

LoginCreds ==
  [username |-> "string", password |-> "string", response |-> "string",
   dynamicChallengeCookie |-> "string"]

SessionCreds ==
  [replacePasswordWithSessionID |-> "bool", cachePassword |-> "bool"]

ProvideCreds == LoginCreds ++ SessionCreds

Event ==
  [error |-> "bool", fatal |-> "bool", name |-> "string", info |-> "string"]

Status == [error |-> "bool", status |-> "string", message |-> "string"]

LogInfo == [text |-> "string"]

TransportStats ==
  [bytesIn |-> "long", bytesOut |-> "long", packetsIn |-> "long",
   packetsOut |-> "long", lastPacketReceived |-> "int"]

Structs ==
  [Config |-> Config, EvalConfig |-> EvalConfig, ProvideCreds |-> ProvideCreds,
   Event |-> Event, Status |-> Status, LogInfo |-> LogInfo,
   TransportStats |-> TransportStats]

-----------------------------------------------------------------------------
(* A struct as its C++ constructor leaves it: what the core does with a    *)
(* field that nobody set is its own affair.                                *)
Fresh(type) == [field \in DOMAIN Structs[type] |-> "unset"]

(* What a caller in Java may pass and a setter refuses with a              *)
(* NullPointerException, before it writes anything.                        *)
Null == "null"

Refused(type, field, value) ==
  Structs[type][field] = "string" /\ value = Null

=============================================================================
