--------------------------- MODULE MCColumnStore ---------------------------
(* Bounded values for the ColumnStore runs. *)
EXTENDS ColumnStore

MCColumnName == {Unnamed} \cup {AutoName(k) : k \in 1 .. MaxWidth}

\* Addresses carry no meaning: two stores with the same values and the same
\* sharing are one.
Owned(address) ==
  <<heap[address],
    {s \in DOMAIN series : series[s] = address},
    {slot \in (DOMAIN frames) \X (1 .. MaxWidth) :
       slot[2] \in DOMAIN frames[slot[1]] /\ frames[slot[1]][slot[2]] = address}>>

View == <<{Owned(address) : address \in DOMAIN heap}, hollow, unchecked>>
=============================================================================
