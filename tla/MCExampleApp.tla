----------------------------- MODULE MCExampleApp -----------------------------
EXTENDS ExampleApp

CONSTANTS home, setup

TwoNetworks == {home, setup}
OneNetwork == {home}
Calls == {"AutoConnect", "ConfigViaAp", "Stop"}
Anything == {"netif", "group", "loop", "nvs", "wifi"}
=============================================================================
