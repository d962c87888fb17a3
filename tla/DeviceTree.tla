------------------------------ MODULE DeviceTree ------------------------------
(****************************************************************************)
(* The flattened device tree of kernel_chip_drivers: build() walks the      *)
(* words of the structure block and makes the tree of Nodes, init() then    *)
(* links the phandles, and get() finds a node by its path.  The blob is     *)
(* memory, so it is modelled by its bytes: where build() lands after a name *)
(* depends on the name's length.  Option<T> is a sequence of at most one T. *)
(****************************************************************************)
EXTENDS Integers, Sequences, SequencesExt, TLC

CONSTANTS Sources,    \* the source trees that the firmware may have flattened
          Strings     \* offset in the strings block -> property name

VARIABLES source,        \* the source tree: what the blob says (never changes)
          blob,          \* the structure block, a sequence of bytes
          token,         \* the token pointer, as an offset in the block
          node_stack,    \* future parents
          current_node,  \* Option<Node>
          root,          \* DEVICE_TREE_ROOT: Option<Node>
          panicked       \* an unwrap() has failed: init() never returns

vars == <<source, blob, token, node_stack, current_node, root, panicked>>

AT == 64
PLUS == 43

\* The hexadecimal digits of either case; the text of a number has the one whose
\* letters start after this offset.
Hex == 48..57 \cup 65..70 \cup 97..102
Lower == 87
Upper == 55

DigitOf(b) == b - (CASE b <= 57 -> 48 [] b <= 70 -> Upper [] OTHER -> Lower)

DigitText(d, case) == d + (IF d <= 9 THEN 48 ELSE case)

RECURSIVE HexText(_, _)
HexText(n, case) == IF n < 16 THEN <<DigitText(n, case)>>
                    ELSE Append(HexText(n \div 16, case), DigitText(n % 16, case))

\* usize::from_str_radix(s, 16).unwrap_or(0): a sign may come first, and what is
\* no number or has more than 64 bits is 0.
FromHex(s) ==
    LET digits  == IF s # <<>> /\ Head(s) = PLUS THEN Tail(s) ELSE s
        nonzero == SelectInSeq(digits, LAMBDA b : b # 48)
        fits    == nonzero = 0 \/ Len(digits) - nonzero < 16
    IN IF digits # <<>> /\ Range(digits) \subseteq Hex /\ fits
       THEN FoldLeft(LAMBDA n, b : 16 * n + DigitOf(b), 0, digits)
       ELSE 0

\* The encoding of one character, and what core::str::from_utf8 accepts.
IsChar(c) ==
    /\ \A i \in 2..Len(c) : c[i] \in 128..191
    /\ CASE Len(c) = 1 -> c[1] < 128
         [] Len(c) = 2 -> c[1] \in 194..223
         [] Len(c) = 3 -> /\ c[1] \in 224..239
                          /\ c[1] = 224 => c[2] >= 160
                          /\ c[1] = 237 => c[2] < 160
         [] Len(c) = 4 -> /\ c[1] \in 240..244
                          /\ c[1] = 240 => c[2] >= 144
                          /\ c[1] = 244 => c[2] < 144

RECURSIVE IsUtf8(_)
IsUtf8(s) ==
    \/ s = <<>>
    \/ \E n \in 1..4 : n <= Len(s) /\ IsChar(SubSeq(s, 1, n)) /\ IsUtf8(SubSeq(s, n + 1, Len(s)))

----------------------------------------------------------------------------
(* What the firmware writes: the format of the devicetree specification.    *)

U32(n) == <<n \div 2^24, (n \div 2^16) % 256, (n \div 2^8) % 256, n % 256>>

Padded(bytes) == bytes \o [i \in 1..((-Len(bytes)) % 4) |-> 0]

CString(s) == Append(s, 0)

ValueBytes(v) ==
    CASE v.kind = "Empty" -> <<>>
      [] v.kind \in {"u32", "PHandleRaw"} -> U32(v.value)
      [] v.kind = "u64" -> U32(0) \o U32(v.value)
      [] v.kind = "String" -> CString(v.value)
      [] v.kind = "StringList" -> FlattenSeq([i \in DOMAIN v.value |-> CString(v.value[i])])
      [] v.kind = "PropSpecific" -> v.value

PropBytes(offset, value) ==
    LET bytes == ValueBytes(value)
    IN U32(3) \o U32(Len(bytes)) \o U32(offset) \o Padded(bytes)

\* A source node is [name, address, unit, props, nop, children]: props maps the
\* offsets of its properties' names to their values, unit says how the address is
\* written, "comma" with a second part (pci@1,0), nop that a NOP follows the
\* properties.
NameBytes(s) ==
    LET case == IF s.unit = "upper" THEN Upper ELSE Lower
    IN s.name \o (IF s.address = <<>> THEN <<>> ELSE <<AT>> \o HexText(s.address[1], case))
              \o (IF s.unit = "comma" THEN <<44, 48>> ELSE <<>>)

RECURSIVE NodeBytes(_)
NodeBytes(s) ==
    LET offsets == SetToSortSeq(DOMAIN s.props, <)
    IN U32(1) \o Padded(CString(NameBytes(s)))
       \o FlattenSeq([i \in DOMAIN offsets |-> PropBytes(offsets[i], s.props[offsets[i]])])
       \o (IF s.nop THEN U32(4) ELSE <<>>)
       \o FlattenSeq([i \in DOMAIN s.children |-> NodeBytes(s.children[i])])
       \o U32(2)

----------------------------------------------------------------------------
(* The Node and its operations.  A node's children are a map from the key   *)
(* <<name, unit address>>: the two nested BTreeMaps of the code.            *)

\* splitn(2, '@'): the name, and the address when there is an @.
SplitName(text) ==
    LET at == SelectInSeq(text, LAMBDA b : b = AT)
    IN IF at = 0 THEN <<text, <<>>>>
       ELSE <<SubSeq(text, 1, at - 1), <<FromHex(SubSeq(text, at + 1, Len(text)))>>>>

\* Node::new
NewNode(text) == [key |-> SplitName(text), children |-> <<>>, properties |-> <<>>]

\* Node::insert_child: a child with the same name and address is replaced.
InsertChild(node, other) == [node EXCEPT !.children = (other.key :> other) @@ @]

GetFirst(node, component) ==
    LET key   == SplitName(component)
        named == {k \in DOMAIN node.children : k[1] = key[1]}
    IN {node.children[k] : k \in {CHOOSE k \in named : TRUE}}

\* The child that one component of a path names in Node::get: "name" has no
\* address, "name@" takes the first of that name, "name@address" is exact.
GetChild(node, component) ==
    LET key     == SplitName(component)
        named   == {k \in DOMAIN node.children : k[1] = key[1]}
        first   == {k \in named : \A l \in named :
                        k[2] = <<>> \/ (l[2] # <<>> /\ k[2][1] <= l[2][1])}
        any     == component = Append(key[1], AT)
    IN {node.children[k] : k \in IF any THEN first ELSE named \cap {key}}

RECURSIVE Get(_, _)
Get(node, path) ==
    LET child == GetChild(node, Head(path))
    IN IF Len(path) = 1 THEN child ELSE UNION {Get(c, Tail(path)) : c \in child}

\* Node::children_names_address: the text of a child's name.
NameAddress(key) ==
    IF key[2] = <<>> THEN key[1] ELSE Append(key[1], AT) \o HexText(key[2][1], Lower)

\* The nodes of Node::walk, by their paths from this node (<<>> is itself).
RECURSIVE Walk(_)
Walk(node) ==
    {<<>>} \cup UNION {{<<k>> \o p : p \in Walk(node.children[k])} : k \in DOMAIN node.children}

RECURSIVE At(_, _)
At(node, path) ==
    IF path = <<>> THEN node ELSE At(node.children[Head(path)], Tail(path))

----------------------------------------------------------------------------
(* PropertyValue::guess.                                                    *)

BigEndian(bytes) == FoldLeft(LAMBDA n, b : 256 * n + b, 0, bytes)

Val(kind, value) == [kind |-> kind, value |-> value]

\* The strings that end at each zero byte; what follows the last is dropped.
SplitZeros(bytes) ==
    LET zeros == SetToSortSeq({k \in DOMAIN bytes : bytes[k] = 0}, <)
    IN [j \in DOMAIN zeros |->
            SubSeq(bytes, IF j = 1 THEN 1 ELSE zeros[j - 1] + 1, zeros[j] - 1)]

\* The last byte is not looked at; before it, a control character that is
\* not the single zero after a character says that the value is no string.
Ends(bytes, k) == bytes[k] = 0 /\ k > 1 /\ bytes[k - 1] # 0

IsText(bytes) ==
    bytes # <<>> /\ \A k \in 1..(Len(bytes) - 1) : bytes[k] >= 32 \/ Ends(bytes, k)

\* The strings of a text: one that ends before the last byte makes it a list.
Texts(bytes) ==
    IF \E k \in 1..(Len(bytes) - 1) : Ends(bytes, k) THEN SplitZeros(bytes) ELSE <<Front(bytes)>>

\* from_utf8(..).unwrap() fails on one of the strings.
GuessPanics(bytes) == IsText(bytes) /\ \E t \in Range(Texts(bytes)) : ~IsUtf8(t)

Guess(bytes, name) ==
    LET texts  == Texts(bytes)
        handle == name = "interrupt-parent"
    IN IF bytes = <<>> THEN Val("Empty", <<>>)
       ELSE IF IsText(bytes)
            THEN IF 0 \in Range(Front(bytes)) THEN Val("StringList", texts) ELSE Val("String", texts[1])
       ELSE IF Len(bytes) = 8 THEN Val("u64", BigEndian(bytes))
       ELSE IF Len(bytes) = 4
            THEN Val(IF handle THEN "PHandleRaw" ELSE "u32", BigEndian(bytes))
       ELSE Val("PropSpecific", bytes)

----------------------------------------------------------------------------
(* build(): one action per arm of its match on the token.                   *)

Slice(from, len) == SubSeq(blob, from + 1, from + len)

Word(at) == blob[at + 1] * 2^24 + blob[at + 2] * 2^16 + blob[at + 3] * 2^8 + blob[at + 4]

CStr(from) == Slice(from, CHOOSE n \in 0..Len(blob) :
                  blob[from + n + 1] = 0 /\ \A i \in 1..n : blob[from + i] # 0)

Unaligned(at) == at

Align(at) == ((at + 3) \div 4) * 4

Running == root = <<>> /\ ~panicked

\* The pointer moves on by the name's length and the nul's and one more, not
\* by the token's four bytes: it may stop at the last word of the name, which
\* is then read as a token of its own (Unknown).
BeginNode ==
    /\ Running /\ Word(token) = 1
    /\ node_stack' = node_stack \o current_node
    /\ LET name == CStr(token + 4)
       IN /\ token' = Align(token + Len(CString(name)) + 1)
          /\ current_node' = <<NewNode(name)>>
          /\ panicked' = ~IsUtf8(name)
    /\ UNCHANGED <<source, blob, root>>

EndNode ==
    /\ Running /\ Word(token) = 2
    /\ IF current_node # <<>> /\ node_stack # <<>>
       THEN /\ current_node' = <<InsertChild(Last(node_stack), current_node[1])>>
            /\ node_stack' = Front(node_stack)
       ELSE UNCHANGED <<node_stack, current_node>>
    /\ token' = token + 4
    /\ UNCHANGED <<source, blob, root, panicked>>

Prop ==
    /\ Running /\ Word(token) = 3
    /\ LET name  == Strings[Word(token + 8)]
           bytes == Slice(token + 12, Word(token + 4))
       IN \/ /\ current_node # <<>> /\ GuessPanics(bytes)
             /\ panicked' = TRUE
             /\ UNCHANGED <<token, current_node>>
          \/ /\ current_node = <<>> \/ ~GuessPanics(bytes)
             /\ current_node' = [i \in DOMAIN current_node |->
                   [current_node[i] EXCEPT !.properties = (name :> Guess(bytes, name)) @@ @]]
             /\ token' = Align(token + 12 + Len(bytes))
             /\ UNCHANGED panicked
    /\ UNCHANGED <<source, blob, node_stack, root>>

Nop ==
    /\ Running /\ Word(token) = 4
    /\ token' = token + 4
    /\ UNCHANGED <<source, blob, node_stack, current_node, root, panicked>>


Unknown ==
    /\ Running /\ Word(token) \notin {1, 2, 3, 4, 9}
    /\ token' = token + 4
    /\ UNCHANGED <<source, blob, node_stack, current_node, root, panicked>>

OwnersBelowRoot(handle, tree) ==
    {p \in {<<>>} \cup {<<k>> : k \in DOMAIN tree.children} :
        "phandle" :> Val("u32", handle) = At(tree, p).properties}

\* The phandle map of link_phandles: the nodes that have this phandle.
Owners(handle, tree) ==
    {p \in Walk(tree) : LET properties == At(tree, p).properties IN
        "phandle" \in DOMAIN properties /\ properties["phandle"] = Val("u32", handle)}

\* The walk_mut of link_phandles over the subtree node of tree: the PHandleRaw
\* of a known handle is now a reference to the node, here the node's path.
RECURSIVE LinkPhandles(_, _)
LinkPhandles(node, tree) ==
    LET Link(v) == IF v.kind = "PHandleRaw" /\ Owners(v.value, tree) # {}
                   THEN Val("PHandle", CHOOSE p \in Owners(v.value, tree) : TRUE) ELSE v
    IN [node EXCEPT
            !.properties = [n \in DOMAIN node.properties |-> Link(node.properties[n])],
            !.children   = [k \in DOMAIN node.children |-> LinkPhandles(node.children[k], tree)]]

\* The End token: build() returns the node, init() stores it and links it.
End ==
    /\ Running /\ Word(token) = 9
    /\ root' = <<LinkPhandles(current_node[1], current_node[1])>>
    /\ current_node' = <<>>
    /\ UNCHANGED <<source, blob, token, node_stack, panicked>>

Init ==
    /\ source \in Sources
    /\ blob = NodeBytes(source) \o U32(9)
    /\ token = 0
    /\ node_stack = <<>> /\ current_node = <<>>
    /\ root = <<>> /\ panicked = FALSE

Next == BeginNode \/ EndNode \/ Prop \/ Nop \/ Unknown \/ End

Spec == Init /\ [][Next]_vars /\ WF_vars(Next)

----------------------------------------------------------------------------
(* Properties.                                                              *)

\* The pointer and the shape of what build() has in hand.
TypeOK ==
    /\ token \in Nat /\ panicked \in BOOLEAN
    /\ Len(current_node) <= 1 /\ Len(root) <= 1
    /\ root # <<>> => node_stack = <<>>

RECURSIVE Described(_)
Described(s) == {s} \cup UNION {Described(c) : c \in Range(s.children)}

\* What a source tree must keep to: addresses are plain hexadecimal numbers
\* (siblings that differ only after a comma would replace one another), and no
\* cell is a number whose bytes all are characters.
Plain(s) ==
    \A d \in Described(s) :
        /\ d.unit # "comma"
        /\ \A o \in DOMAIN d.props :
              d.props[o].kind \in {"u32", "PHandleRaw"} => d.props[o].value < 2^29

\* The pointer is always at a word of the structure block: after a name or a
\* value of any length build() reads the next word at a word boundary, and it
\* never reads beyond the End token.  The nodes it has built are well-formed.
StaysInBlock == TypeOK /\ token % 4 = 0 /\ token + 4 <= Len(blob)

\* A value of a built tree stands for a written one: it is the same, but a
\* phandle some node has is a reference to that node.
Stands(value, written, tree) ==
    LET owned == {p \in Walk(tree) : \E n \in DOMAIN At(tree, p).properties :
                      n = "phandle" /\ At(tree, p).properties[n].value = written.value}
    IN IF written.kind = "PHandleRaw" /\ owned # {}
       THEN value.kind = "PHandle" /\ value.value \in owned
       ELSE value = written

RECURSIVE Same(_, _, _)
Same(node, s, tree) ==
    /\ node.key = <<s.name, s.address>>
    /\ DOMAIN node.properties = {Strings[o] : o \in DOMAIN s.props}
    /\ \A o \in DOMAIN s.props : Stands(node.properties[Strings[o]], s.props[o], tree)
    /\ DOMAIN node.children = {<<c.name, c.address>> : c \in Range(s.children)}
    /\ \A c \in Range(s.children) : Same(node.children[<<c.name, c.address>>], c, tree)

\* The tree that init() returns is the one that was flattened: every node with
\* its name and unit address under its own parent, every property with the
\* value it was written from, interrupt-parents linked to the node anywhere in
\* the tree that has the phandle, and nothing else.
TreeMatches == root # <<>> /\ Plain(source) => Same(root[1], source, root[1])

\* Every node is found by get() at the path of the names that
\* children_names_address lists, whatever was flattened.
GetFindsListed ==
    root # <<>> =>
        \A p \in Walk(root[1]) \ {<<>>} :
            Get(root[1], [i \in DOMAIN p |-> NameAddress(p[i])]) = {At(root[1], p)}

\* Names and values are UTF-8, or have a control character that no string has.
Readable(s) ==
    \A d \in Described(s) :
        /\ IsUtf8(NameBytes(d))
        /\ \A o \in DOMAIN d.props :
              LET bytes == ValueBytes(d.props[o])
              IN \/ IsUtf8(bytes)
                 \/ \E k \in 1..(Len(bytes) - 1) :
                       bytes[k] \in 1..31 \/ (bytes[k] = 0 /\ (k = 1 \/ bytes[k - 1] = 0))

=============================================================================
