------------------------------- MODULE MCInputs -------------------------------
(***************************************************************************)
(* Inputs with three addresses of two families, a path rule, networks of   *)
(* both families and a rule that does not parse, and the header names of   *)
(* one connection beside two others.                                       *)
(***************************************************************************)
EXTENDS Inputs

V4(bits) == [family |-> 4, bits |-> bits]
V6(bits) == [family |-> 6, bits |-> bits]

MCAddresses == {V4(<<1, 0>>), V4(<<0, 1>>), V6(<<1, 0>>)}

MCPaths == {"/__heavy/", "/robots", "/page"}

MCSettings == {<<None, TRUE, FALSE>>, <<FALSE, TRUE, FALSE>>, <<TRUE, FALSE, FALSE>>,
               <<Invalid, TRUE, FALSE>>, <<FALSE, None, TRUE>>}

Net(family, bits) == [kind |-> "net", family |-> family, bits |-> bits]

MCRules == {[rule |-> [kind |-> "paths", paths |-> {"/robots"}], paths |-> {"/robots"}, ips |-> {}],
            [rule |-> Net(4, <<1>>), paths |-> {}, ips |-> {V4(<<1, 0>>)}],
            [rule |-> [kind |-> "invalid"], paths |-> {}, ips |-> {}],
            [rule |-> Net(6, <<1, 0>>), paths |-> {}, ips |-> {V6(<<1, 0>>)}]}

MCNames == {"x-a", "x-b"} \cup (OneConnection \ {"connection"})
=============================================================================
