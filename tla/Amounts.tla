------------------------------ MODULE Amounts -------------------------------
(***************************************************************************)
(* Amounts of money a juror cites (domain/juror_amounts.py): a numeral of  *)
(* digits and Korean units is read to a number of won, or rejected, and    *)
(* must be one of the post's.  Functions without state.                    *)
(*                                                                         *)
(* A token is a number or a unit.  Numbers are counted in tenths, so that  *)
(* a number with a fraction, as in 1.5, is a natural number, too.          *)
(***************************************************************************)
EXTENDS Integers, Sequences, SequencesExt

CONSTANTS
    SmallUnits,         \* _SMALL_UNITS: token |-> value
    LargeUnits,         \* _LARGE_UNITS
    None                \* no number, or no amount could be read

\* No unit is both, and the state of _parse_amount is a record of these.
ASSUME AmountsAssumption ==
    /\ \A u \in DOMAIN SmallUnits : SmallUnits[u] \in Nat \ {0}
    /\ \A u \in DOMAIN LargeUnits : LargeUnits[u] \in Nat \ {0}
    /\ DOMAIN SmallUnits \cap DOMAIN LargeUnits = {}
    /\ None \notin Nat \cup [total : Nat, section : Nat, number : Nat \cup {None},
                              small : Nat \cup {None}, large : Nat \cup {None}, has_section : BOOLEAN]

Number(n) == [number |-> n]
Unit(u) == [unit |-> u]

IsNumber(token) == "number" \in DOMAIN token
IsSmall(token) == ~IsNumber(token) /\ token.unit \in DOMAIN SmallUnits
IsLarge(token) == ~IsNumber(token) /\ token.unit \in DOMAIN LargeUnits

\* The variables of _parse_amount.
Start == [total |-> 0, section |-> 0, number |-> None,
          small |-> None, large |-> None, has_section |-> FALSE]

OrElse(number, default) == IF number = None THEN default ELSE number

\* The small units would go on to fall over all sections.
NextSectionFalling(s, unit) ==
    [s EXCEPT !.total = @ + (s.section + OrElse(s.number, 0)) * unit,
              !.section = 0, !.number = None, !.large = unit, !.has_section = FALSE]

\* A large unit closes the section before it.
NextSection(s, unit) ==
    [s EXCEPT !.total = @ + (s.section + OrElse(s.number, 0)) * unit, !.section = 0,
              !.number = None, !.small = None, !.large = unit, !.has_section = FALSE]

\* One token; None once the numeral is rejected.
Reads(s, token) ==
    IF s = None THEN None
    ELSE IF IsSmall(token)
    THEN LET unit == SmallUnits[token.unit]
         IN  IF s.small # None /\ unit >= s.small THEN None
             ELSE [s EXCEPT !.section = @ + OrElse(s.number, 10) * unit,
                            !.number = None, !.small = unit, !.has_section = TRUE]
    ELSE IF IsLarge(token)
    THEN LET unit == LargeUnits[token.unit]
         IN  IF (s.large # None /\ unit >= s.large) \/ ~s.has_section THEN None
             ELSE NextSection(s, unit)
    ELSE IF s.number # None THEN None
    ELSE [s EXCEPT !.number = token.number, !.has_section = TRUE]

\* In won, if the tenths come to whole won.
ParseAmount(tokens, negative) ==
    LET read[n \in 0..Len(tokens)] == IF n = 0 THEN Start ELSE Reads(read[n - 1], tokens[n])
        s == read[Len(tokens)]
        tenths == s.total + s.section + OrElse(s.number, 0)
    IN  IF s = None THEN None
        ELSE IF tenths % 10 # 0 THEN None
        ELSE IF negative THEN -(tenths \div 10) ELSE tenths \div 10

\* has_grounded_amounts, of the amounts read in each text: one that could
\* not be read is never grounded.
HasGroundedAmounts(cited, amount, given) ==
    \A k \in DOMAIN cited : cited[k] # None /\ cited[k] \in {amount} \cup Range(given)
=============================================================================
