----------------------------- MODULE MCNeBuffer -----------------------------
(* NeBuffer with a few addresses and payloads of one, two and three bytes. *)
EXTENDS NeBuffer

MCPayloads == {<<7>>, <<5, 0>>, <<1, 2, 3>>}
=============================================================================
