------------------------- MODULE MCFrameSubmit -------------------------
(* Instances of FrameSubmit: a pipeline with everything, one with a uniform buffer that  *)
(* does not fit into the table, one whose shaders were not compiled; a compute pipeline  *)
(* whose buffers reach into the flush job, one with too many textures, one with too many *)
(* buffers; passes below and above 300x300, the second with a polygon list too long.     *)
EXTENDS FrameSubmit

Full  == [ubos |-> 4, textures |-> 1, vs |-> 1, fs |-> 2, push |-> TRUE, discard |-> FALSE]
Wide  == [ubos |-> 9, textures |-> 0, vs |-> 2, fs |-> 1, push |-> FALSE, discard |-> FALSE]
Stub  == [ubos |-> 1, textures |-> 0, vs |-> 0, fs |-> 0, push |-> FALSE, discard |-> FALSE]

Long  == [ssbos |-> 7, textures |-> 1, cs |-> 1, push |-> TRUE]
Short == [ssbos |-> 1, textures |-> 9, cs |-> 2, push |-> FALSE]
Broad == [ssbos |-> 9, textures |-> 0, cs |-> 1, push |-> FALSE]

Tiny  == [area |-> <<64, 64>>, image |-> <<64, 64>>]
Large == [area |-> <<1280, 720>>, image |-> None]

MCGraphics == {Full, Wide, Stub}
MCCompute  == {Long, Short, Broad}
MCPasses   == {Tiny, Large}

========================================================================
