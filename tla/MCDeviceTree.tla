---------------------------- MODULE MCDeviceTree ----------------------------
(* Small source trees: names and values of every length modulo four, with    *)
(* and without an address, and every kind of value.                          *)
EXTENDS DeviceTree

MCStrings == <<"phandle", "interrupt-parent", "reg">>

Names == {<<97>>, <<97, 98>>, <<97, 98, 99>>, <<97, 98, 99, 100>>}

Props ==
    {<<>>, 1 :> Val("u32", 2), 2 :> Val("PHandleRaw", 1),
     3 :> Val("Empty", <<>>) @@ 2 :> Val("PHandleRaw", 7),
     3 :> Val("String", <<97, 98>>), 3 :> Val("StringList", <<<<97>>, <<98, 99>>>>),
     3 :> Val("u64", 5), 3 :> Val("PropSpecific", <<1, 2, 0, 3, 1>>),
     3 :> Val("u32", 1094795520)}

\* Values with bytes of 128 and more: a string, a mac-address with a control
\* character, and two values that look like a string and a list and are not UTF-8.
HighProps ==
    {3 :> Val("String", <<195, 169, 226, 130, 172>>),
     3 :> Val("PropSpecific", <<82, 84, 0, 18, 160, 86>>),
     3 :> Val("PropSpecific", <<82, 84, 192, 168, 52, 86>>),
     3 :> Val("PropSpecific", <<97, 0, 240, 128, 0>>)}

Source(name, address, unit, props, nop, children) ==
    [name |-> name, address |-> address, unit |-> unit, props |-> props,
     nop |-> nop, children |-> children]

Leaves == {Source(n, a, "lower", p, FALSE, <<>>) :
               n \in {<<97>>, <<98, 97, 98>>}, a \in {<<>>, <<18>>}, p \in Props \cup HighProps}

\* The first child has a phandle or refers to one, the second is any leaf, and
\* one of the two has a child.
MCSources ==
    {Source(<<>>, <<>>, "lower", p, FALSE,
        <<Source(n, a, u, 1 :> Val("u32", 1), TRUE, <<>>),
          Source(<<99>>, <<10>>, "lower", <<>>, FALSE, <<leaf>>)>>) :
        n \in Names, a \in {<<3>>}, u \in {"lower", "comma"},
        p \in {<<>>, 2 :> Val("PHandleRaw", 1)}, leaf \in Leaves}
    \cup
    {Source(<<>>, <<>>, "lower", <<>>, FALSE,
        <<Source(n, a, "lower", 2 :> Val("PHandleRaw", 1), FALSE, <<>>),
          Source(n, b, u, <<>>, FALSE,
             <<Source(m, <<>>, "lower", 1 :> Val("u32", 1), FALSE, <<>>)>>)>>) :
        n \in Names, m \in Names, a \in {<<>>, <<0>>}, b \in {<<1>>, <<171>>},
        u \in {"lower", "upper", "comma"}}
=============================================================================
