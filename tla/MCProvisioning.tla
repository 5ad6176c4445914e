--------------------------- MODULE MCProvisioning ----------------------------
EXTENDS Provisioning

CONSTANTS home, setup

TwoNetworks == {home, setup}
OneNetwork == {home}

Everything == ApiCalls
Provisioners == {"AutoConnect", "ConfigViaAp", "Stop"}
PortalOnly == {"ConfigViaAp"}
=============================================================================
