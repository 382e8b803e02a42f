--------------------------- MODULE MCBufferedFile ---------------------------
EXTENDS BufferedFile

MCStarts == {<<>>, <<1, 2, 1>>}
MCSeeks == {[offs |-> 0, whence |-> "SEEK_SET"], [offs |-> 1, whence |-> "SEEK_SET"],
            [offs |-> 3, whence |-> "SEEK_SET"], [offs |-> 0, whence |-> "SEEK_END"],
            [offs |-> 1, whence |-> "SEEK_CUR"]}
=============================================================================
