----------------------------- MODULE MCTcpServer -----------------------------
(***************************************************************************)
(* Instances of TcpServer: the base loop alone, and pools of one and two   *)
(* loops.                                                                  *)
(***************************************************************************)
EXTENDS TcpServer

NoPool == <<>>
OneLoop == <<"io1">>
TwoLoops == <<"io1", "io2">>

TooLong == {<<"m", "m">>}
FittingOrNot == {<<"m">>, <<"m", "m">>}
=============================================================================
