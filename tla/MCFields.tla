------------------------------ MODULE MCFields ------------------------------
(* Fields with bytes of three bits: numbers of one byte go to 7, a prefix  *)
(* of one byte announces 7 at most, a variable length number has two bits  *)
(* in each byte.                                                           *)
EXTENDS Fields

Num(kind, signed, big, type, len, min, offset, forced) ==
    [kind |-> kind, signed |-> signed, big |-> big, type |-> type, len |-> len,
     min |-> min, offset |-> offset, forced |-> forced]

Plain(signed, type)   == Num("plain", signed, TRUE, type, type, 1, 0, -1)
Var(signed, big, len, min) ==
    Num("var", signed, big, SizeToType(len), len, min, 0, -1)
Byte == Plain(FALSE, 1)

(* Numbers, with all the values of their type of one or two bytes.         *)
Numbers ==
    << Plain(TRUE, 2), Num("plain", TRUE, FALSE, 2, 2, 1, 5, -1),
       Num("fixed", TRUE, TRUE, 2, 1, 1, -3, -1),
       Num("fixed", FALSE, FALSE, 2, 1, 1, 2, -1),
       Var(TRUE, TRUE, 2, 1), Var(TRUE, FALSE, 2, 1), Var(FALSE, TRUE, 2, 1),
       Num("var", TRUE, TRUE, 2, 4, 2, 0, -1),
       Num("var", FALSE, FALSE, 2, 3, 2, 1, -1),
       Num("avail", FALSE, TRUE, 2, 2, 1, 0, -1),
       Num("avail", FALSE, FALSE, 2, 2, 1, 1, 1) >>

Values(f) == { v \in -(2 ^ 6)..(2 ^ 6) : HasType(f, v) }

-----------------------------------------------------------------------------
(* Lists: of every kind of end, and of length of their elements.           *)
NoPrefix == Byte

Two(S)      == { <<>> } \cup { <<a>> : a \in S } \cup { <<a, b>> : a, b \in S }
Elems(S)    == { [ver |-> 0, elems |-> s] : s \in S }
Long(a)     == [i \in 1..9 |-> a]      \* more than a prefix can announce
ByteLists   == Elems(Two({0, 5}) \cup {<<1, 0, 7>>, Long(1)})
VarLists    == Elems(Two({0, 3, 4}) \cup {<<15, 1, 4>>})

(* An element with a part that may be there, at its end.                   *)
Tailed      == Bundle(<<Byte, Optional(Byte)>>)
Opt(m, v)  == [mode |-> m, val |-> v]
TailedLists == Elems(Two({ <<3, Opt("tentative", 0)>>, <<0, Opt("exists", 6)>> }))

(* An element with a part that is there in version 1 only.                 *)
Versioned   == Bundle(<<Byte, Between(Var(FALSE, TRUE, 2, 1), {1})>>)
VersionedLists ==
    Elems(Two({ <<3, Opt("tentative", 2)>>, <<0, Opt("tentative", 9)>> }))

Lists ==
    << List(Byte, "size", "none", Var(FALSE, TRUE, 2, 1), 0),
       List(Var(FALSE, TRUE, 2, 1), "length", "none", Byte, 0),
       List(Byte, "fixed", "none", NoPrefix, 2),
       List(Var(FALSE, TRUE, 2, 1), "fixed", "none", NoPrefix, 2),
       List(Byte, "term", "none", NoPrefix, 0),
       List(Byte, "rest", "none", NoPrefix, 0),
       List(Plain(FALSE, 2), "size", "first", Byte, 0),
       List(Byte, "length", "first", Byte, 0),
       List(Tailed, "size", "length", Byte, 0),
       List(Tailed, "rest", "length", Byte, 0),
       List(Versioned, "size", "none", Byte, 0),
       List(Versioned, "length", "length", Byte, 0) >>

ListSamples ==
    << ByteLists, VarLists, ByteLists, VarLists, ByteLists, ByteLists, ByteLists,
       ByteLists, TailedLists, TailedLists, VersionedLists, VersionedLists >>

-----------------------------------------------------------------------------
(* Messages.                                                               *)
Choice == Variant(<< Bundle(<<Key(Byte, 1), Byte>>),
                     Bundle(<<Key(Byte, 2), Between(Var(TRUE, TRUE, 2, 1), {1, 2})>>),
                     Bundle(<<Key(Byte, 2), Plain(FALSE, 2)>>) >>)
ChoiceValues ==
    { [ver |-> 0, idx |-> 0, val |-> NoMember],
      [ver |-> 0, idx |-> 1, val |-> <<1, 5>>],
      [ver |-> 0, idx |-> 2, val |-> <<2, Opt("tentative", -8)>>],
      [ver |-> 0, idx |-> 2, val |-> <<2, Opt("tentative", 1)>>] }

Bundles ==
    << Bundle(<<Byte, List(Byte, "size", "none", Byte, 0), Optional(Plain(TRUE, 2))>>),
       Bundle(<<Between(Byte, {0, 2}), Between(Byte, {1, 2}), Var(TRUE, TRUE, 2, 1)>>),
       Choice >>

BundleSamples ==
    << { <<a, [ver |-> 0, elems |-> s], o>> :
            a \in {0, 7}, s \in {<<>>, <<2>>, <<4, 2>>},
            o \in {Opt("exists", -9), Opt("tentative", 4), Opt("missing", 0)} },
       { <<Opt("tentative", a), Opt("tentative", b), c>> :
            a \in {0, 4}, b \in {2, 7}, c \in {-3, 0, 5} },
       ChoiceValues >>

MCForms   == Numbers \o Lists \o Bundles
MCSamples == [i \in DOMAIN Numbers |-> Values(Numbers[i])] \o ListSamples \o BundleSamples

(* Bytes at the edges: zero, the continue bit (4) and what is below it.    *)
MCPeerBytes ==
    UNION { [1..n -> {0, 2, 4, 7}] : n \in 0..2 }
    \cup [1..3 -> {0, 2, 4}]
    \cup { <<a, b, c, d>> : a, b \in {1, 2, 6}, c, d \in {1, 6} }
=============================================================================
