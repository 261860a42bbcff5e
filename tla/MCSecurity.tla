----------------------------- MODULE MCSecurity -----------------------------
(* Two fields that stand for the six, a rule for each kind of overlap, names *)
(* of which one begins the other, and two failures instead of five.  The     *)
(* hashes are those of "admin" (0x0f12fc8e), which does not survive the way  *)
(* it is kept, and of a password that does (0x10004100).                     *)
EXTENDS Security

Pattern(src, port) == [src_ip |-> src, dst_port |-> port]

MCFields == {"src_ip", "dst_port"}
MCSource == "src_ip"
MCAny == 0
MCPackets == {Pattern(1, 22), Pattern(1, 80), Pattern(2, 22)}
MCPatterns == {Pattern(1, 22), Pattern(1, 0)}
MCDefaultRules == <<Pattern(1, 22)>>

MCAdminName == <<"a", "d">>
MCNames == {<<"a", "d", "e">>}
MCAdminPassword == <<14, 8, 12, 15, 2, 1, 15, 0>>
MCPasswords == {<<0, 0, 1, 4, 0, 0, 0, 1>>}
=============================================================================
