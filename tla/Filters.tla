------------------------------ MODULE Filters -------------------------------
(* A list comprehension with a condition, as the rules use it, written as a *)
(* function on the prefixes of the list, so that it can be reasoned about.  *)
EXTENDS Naturals, Sequences

\* The items that keep holds, in their order.
Select(items, keep) ==
    LET first[n \in 0..Len(items)] ==
            IF n = 0 THEN <<>>
            ELSE IF items[n] \in keep THEN Append(first[n - 1], items[n]) ELSE first[n - 1]
    IN  first[Len(items)]

=============================================================================
