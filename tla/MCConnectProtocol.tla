------------------------- MODULE MCConnectProtocol -------------------------
(***************************************************************************)
(* Instances of ConnectProtocol for TLC.                                   *)
(***************************************************************************)
EXTENDS ConnectProtocol, TLC

\* The longest string with one byte of length and the shortest with two.
MCStrings == {"", "gbk", "127", "128"}
MCSize == ("" :> 0) @@ ("gbk" :> 2) @@ ("127" :> 127) @@ ("128" :> 128)
MCGbk == {"gbk"}

\* Borders of a varint; TLC's integers end below the last one.
MCCodes == {0, 127, 16384, 268435456}

MCGroups == {<<[key |-> "127", value |-> "128"], [key |-> "128", value |-> ""]>>,
             <<[key |-> "128", value |-> "127"]>>,
             <<[key |-> "", value |-> "127"]>>}
MCAdded == {[key |-> "gbk", value |-> ""], [key |-> "127", value |-> "gbk"]}

=============================================================================
