---------------------------- MODULE MCFileSystem ----------------------------
(* FileSystem for TLC: the paths the processes use and the disk they find.    *)
EXTENDS FileSystem

\* /a, /a/b, and b in the current directory.
UsedPaths == {<<TRUE, <<"a">>>>, <<FALSE, <<"b">>>>, <<TRUE, <<"a", "b">>>>}

\* /a is a directory and /a/b a file of one block.
Tree == [i \in Inums |->
  CASE i = 1 -> [Unused EXCEPT !.type = "dir", !.nlink = 2, !.up = 1, !.addrs = <<1>>,
                               !.ents = [NoEntries EXCEPT !["a"] = 2]]
    [] i = 2 -> [Unused EXCEPT !.type = "dir", !.nlink = 1, !.up = 1, !.addrs = <<2>>,
                               !.ents = [NoEntries EXCEPT !["b"] = 3]]
    [] i = 3 -> [Unused EXCEPT !.type = "file", !.nlink = 1, !.addrs = <<3>>]
    [] OTHER -> Unused]

\* One process makes two calls while the other makes one.
Limits == <<2, 1>>
=============================================================================
