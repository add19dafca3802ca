------------------------------- MODULE MCSalon -------------------------------
(* Salon on a small instance. *)
EXTENDS Salon, TLC

CONSTANTS mon, tue, early, late, cut

OnMonday(date) == mon

E(day, working, h) == [day |-> day, working |-> working, h |-> h]

\* A week with one day off, one that works on another day, and one that names
\* a weekday twice.
MCWeeks == {<<E(mon, TRUE, early), E(tue, FALSE, early)>>,
            <<E(tue, TRUE, late)>>,
            <<E(mon, TRUE, late), E(mon, TRUE, early)>>}

MCOffers == {<<cut>>}

MCExceptions == {[working |-> FALSE, h |-> Off], [working |-> TRUE, h |-> late]}

MCSymmetry == Permutations(Workers)
=============================================================================
