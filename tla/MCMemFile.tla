----------------------------- MODULE MCMemFile ------------------------------
(* Two handles on one small file, one of them for appending only.          *)
EXTENDS MemFile, TLC

CONSTANTS h1, h2

MCFlag == (h1 :> [acc |-> {"w"}, append |-> TRUE]) @@
          (h2 :> [acc |-> {"r", "w"}, append |-> FALSE])
MCPayloads == {<<>>, <<1>>, <<1, 1>>}
MCOffsets == {-1, 0, 1, 2, 7}
=============================================================================
