------------------------------- MODULE MCPrepCif -------------------------------
(* Constants of PrepCif for TLC: two structs, the second of which may        *)
(* contain the first, and the calls of a caller.                             *)
EXTENDS PrepCif

MCStructs == {"inner", "outer"}
MCRank    == [inner |-> 1, outer |-> 2]

ListsOf(T, n) == UNION {[1 .. k -> T] : k \in 0 .. n}

\* Inner structs of up to two elements, or without an element list, and every
\* outer one of up to three.
InnerLists == {<<"uint8", "double">>, <<"double", "uint8">>, NoElements}
                \cup ListsOf({"uint8", "double"}, 1)
OuterLists == ListsOf({"uint8", "sint32", "inner"}, 3)
MCShapes == {[inner |-> s, outer |-> t] : s \in InnerLists, t \in OuterLists}

Offsets(t)      == [fn |-> "offsets", abi |-> "WASM32", nfixed |-> 0,
                    rtype |-> t, atypes |-> <<>>]
Prep(r, as)     == [fn |-> "prep", abi |-> "WASM32", nfixed |-> 0,
                    rtype |-> r, atypes |-> as]
PrepVar(r, n, as) == [fn |-> "var", abi |-> "WASM32", nfixed |-> n,
                      rtype |-> r, atypes |-> as]

\* Layouts by either function, refused abis, fixed calls of up to three
\* arguments, and variadic ones with arguments that are to be promoted.
MCCalls ==
  {Offsets(t) : t \in {"inner", "outer", "uint8"}}
    \cup {[Prep("void", <<>>) EXCEPT !.abi = "FIRST_ABI"],
          [Offsets("outer") EXCEPT !.abi = "LAST_ABI"]}
    \cup {Prep(r, as) : r \in {"void", "outer"},
            as \in {<<>>, <<"inner">>, <<"uint8", "inner">>, <<"complex">>}}
    \cup {Prep("void", <<"uint8", "uint8", "outer">>)}
    \cup {PrepVar("void", n, as) : n \in 1 .. 2,
            as \in {<<"outer", "float">>, <<"uint8", "outer">>,
                    <<"uint8", "outer", "uint8">>, <<"double", "double">>}}
==============================================================================
