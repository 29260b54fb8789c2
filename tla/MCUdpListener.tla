--------------------------- MODULE MCUdpListener --------------------------
EXTENDS UdpListener

MCListeners == <<"status", "image">>
=============================================================================
