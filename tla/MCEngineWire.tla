---------------------------- MODULE MCEngineWire ----------------------------
(* Packets at the edges of the codec: empty, with a separator, with what looks like a
   packet behind a separator, not UTF-8, binary, and too long for a read or a chunk. *)
EXTENDS EngineWire

x == Raw("x")

MCPackets ==
    [ptype : {"Message"},
     data : {<<x>>, <<>>, <<x, SEPARATOR, Raw("4"), x>>, <<Raw("not utf8")>>, <<x, x, x>>}]
      \cup [ptype : {"MessageBinary"}, data : {<<x>>, <<>>, <<x, SEPARATOR>>}]
      \cup [ptype : {"Noop"}, data : {<<>>}]
=============================================================================
