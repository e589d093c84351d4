---------------------------- MODULE MCPreparation ----------------------------
(* Instance of Preparation for TLC: a post, an item shared in one of its   *)
(* rooms and an older post of the author; the intensities change, then a   *)
(* room is added.                                                          *)
EXTENDS Preparation, TLC

CONSTANTS own, shared, old, r1, r2, mild, hell, h1, h2, d1, d2

MCRooms == << {r1}, {r1}, {r1, r2} >>
MCTargets == << {mild}, {mild, hell}, {mild} >>
MCScope ==
    [s \in Source |->
        IF s = shared THEN [visibility |-> "ROOMS", rooms |-> {r1}]
        ELSE [visibility |-> "PUBLIC", rooms |-> {}]]

MCOffers == {{shared, old}}

Symmetry == Permutations(Handler) \cup Permutations(Id)
=============================================================================
