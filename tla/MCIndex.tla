------------------------------ MODULE MCIndex -------------------------------
(* Small files: with whole frames, with fields, with both, with neither,   *)
(* and one that ends before a start code could.                            *)
EXTENDS FrameIndex

Beginning == <<0, 0, 1, 179, 2, 0, 0, 1, 184>>
Picture(type) == <<0, 0, 1, 0, 64, 8 * type>>
Extension(structure) == <<0, 0, 1, 181, 128, 1, structure>>
Run(types) == [k \in 1 .. 6 * Len(types) |->
                 Picture(types[(k - 1) \div 6 + 1])[((k - 1) % 6) + 1]]
Film(structure, types) ==
  Beginning \o Picture(Head(types)) \o Extension(structure) \o Run(Tail(types))

MCFiles == {Film(3, <<1, 3, 2, 1, 3, 1>>), Film(3, <<1, 1, 2, 2, 2, 1>>),
            Film(3, <<1, 2>>) \o <<0>> \o Picture(1),
            Film(3, <<1, 2>>) \o Extension(2),
            Film(2, <<1, 2, 2, 2, 2, 2>>),
            Beginning \o Run(<<1, 2, 2>>) \o <<0, 0>>,
            Run(<<1, 2>>), <<1, 0, 0>>}
=============================================================================
