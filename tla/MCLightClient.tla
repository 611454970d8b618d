---------------------------- MODULE MCLightClient ----------------------------
EXTENDS LightClient

CONSTANTS h1, h2

MCHandlers == {h1, h2}

=============================================================================
