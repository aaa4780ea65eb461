---------------------------- MODULE MCP2scBuffer ----------------------------
(* Small instances of P2scBuffer.                                          *)
EXTENDS P2scBuffer

Chunks == {<<>>} \cup {<<a>> : a \in Byte} \cup {<<a, b, a>> : a, b \in Byte}
Memories == {<<>>} \cup {<<a, b>> : a, b \in Byte}
=============================================================================
