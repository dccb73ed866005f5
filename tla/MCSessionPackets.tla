-------------------------- MODULE MCSessionPackets --------------------------
EXTENDS SessionPackets

(* Packets before, during and after a login, with transfers and logouts.    *)
MCStreams ==
    {<<"safe", "unsafe", "login", "safe">>,
     <<"login", "safe", "unsafe", "safe">>,
     <<"login", "unsafe", "safe", "worldport">>,
     <<"login", "logout", "safe", "enum">>,
     <<"login", "logout", "enum", "login">>,
     <<"login", "login", "unsafe", "logout">>,
     <<"login", "logout", "cancel", "safe">>,
     <<"login", "worldport", "cancel", "unhandled">>}
=============================================================================
