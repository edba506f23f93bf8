---------------------------- MODULE TlsTransport ----------------------------
(* The TLS handle of network_transport.c.  The MQTT task alone uses it, so *)
(* its mutex is always free when it is taken and a call is one action.     *)
EXTENDS Integers

VARIABLES
    pxTls,                \* "NULL" or "context"
    allocated             \* history: contexts of esp-tls that are not destroyed

tlsVars == <<pxTls, allocated>>

TlsInit == pxTls = "NULL" /\ allocated = 0

(* connectToServerWithBackoffRetries forgets the handle it finds.          *)
ForgetHandle == pxTls' = "NULL" /\ UNCHANGED allocated

(* xTlsConnect: the context of esp_tls_init is destroyed when the          *)
(* connection fails; without memory for one the connection fails as well.  *)
TlsConnectSucceeds == pxTls' = "context" /\ allocated' = allocated + 1
TlsConnectFails == pxTls' = "NULL" /\ UNCHANGED allocated

(* Mutant: the handle is cleared and the context is not destroyed.         *)
TlsDisconnectLeaking == pxTls' = "NULL" /\ UNCHANGED allocated

TlsDisconnect ==
    /\ pxTls' = "NULL"
    /\ allocated' = IF pxTls = "NULL" THEN allocated ELSE allocated - 1
=============================================================================
