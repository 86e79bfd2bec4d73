--------------------------- MODULE MCBrokerEvents ---------------------------
EXTENDS BrokerEvents
=============================================================================
