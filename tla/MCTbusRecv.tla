------------------------------ MODULE MCTbusRecv ------------------------------
(***************************************************************************)
(* Small instances of TbusRecv: three channels of a handle that has bound  *)
(* one or two addresses.                                                   *)
(***************************************************************************)
EXTENDS TbusRecv

CONSTANTS a1, a2, p1, p2, p3

MCChan     == {<<a1, p1>>, <<a1, p2>>, <<a1, p3>>}
MCTwoLocal == {<<a1, p1>>, <<a1, p2>>, <<a2, p1>>}

Poll(s, d)  == [src |-> s, dst |-> d]
MCAnySource == {Poll(AnyAddr, AnyAddr)}
MCMixed     == {Poll(AnyAddr, AnyAddr), Poll(p1, a1)}

MCNoPeer   == {}
MCOnePeer  == {p2}
MCNoConfig == {}
MCShrunk   == {{<<a1, p1>>}}
MCConfigs  == {MCTwoLocal, MCTwoLocal \ {<<a1, p1>>}, {<<a1, p2>>}}

=============================================================================
