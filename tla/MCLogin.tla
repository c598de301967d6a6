------------------------------ MODULE MCLogin ------------------------------
(* Two logins and a logout on one machine.  The platform under both of its  *)
(* addresses, in the clear, and somebody else's.                            *)
EXTENDS Login

CONSTANTS s1, s2

URLOf(scheme, host, slash) == [scheme |-> scheme, host |-> host, slash |-> slash]
Site == URLOf("https", "site", FALSE)
Legacy == URLOf("https", "api", TRUE)
Other == URLOf("https", "else", FALSE)
Clear == URLOf("http", "site", FALSE)

MCBase == {Site, Legacy, Other, Clear}

Pair(flow1, base1, flow2, base2) ==
    [s \in {s1, s2} |-> IF s = s1 THEN [flow |-> flow1, base |-> base1]
                                  ELSE [flow |-> flow2, base |-> base2]]
MCSetups ==
    {Pair("device", Legacy, "password", Other),
     Pair("password", Site, "device", Clear)}
=============================================================================
