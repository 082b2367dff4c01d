------------------------------- MODULE WeekBoard -------------------------------
(***************************************************************************)
(* What the week page and GET /api/checkins show (internal/web/server.go   *)
(* over ListCheckinsByWeek): the check-ins of one week, with the observers *)
(* that heard any transmission linked to the user's week, restricted to    *)
(* the users one of whose linked packets came from a wanted region.        *)
(*                                                                         *)
(* A page is one SELECT, so what a reader sees is a function of the state. *)
(* The order of the tiles and their texts are left out.                    *)
(***************************************************************************)
EXTENDS ServerInvariant

\* The links of the check-in's user and week: all its transmissions.
Transmissions(c) == {l \in checkinPackets : l.week = c.week /\ l.user = c.user}

\* observer_names; observer_count is their number.
ObserversOf(c) ==
  {o.observer : o \in {q \in observations : \E l \in Transmissions(c) : l.hash = q.hash}}

\* Does the check-in pass the filter?  An empty IATA_FILTERS lets all pass.
InRegions(c, filter) ==
  filter = {} \/ \E l \in Transmissions(c), r \in rawPackets :
                   r.hash = l.hash /\ r.iata \in filter

\* ListCheckinsByWeek.
ListCheckinsByWeek(filter, week) ==
  {[id |-> c.id, user |-> c.user, observers |-> ObserversOf(c)] :
     c \in {d \in checkins : d.week = week /\ InRegions(d, filter)}}

--------------------------------------------------------------------------------
(***************************************************************************)
(* A check-in shows under a filter that names the region it was heard in,  *)
(* although the filter never looks at the region of the check-in itself.   *)
(***************************************************************************)
OwnRegionShowsCheckin ==
  \A c \in checkins : \A filter \in SUBSET Regions :
    c.iata \in filter => \E row \in ListCheckinsByWeek(filter, c.week) : row.id = c.id

(***************************************************************************)
(* Who has been shown stays shown, with at least the observers shown       *)
(* before: neither retention nor a restart takes a tile or an observer     *)
(* from any page.                                                          *)
(***************************************************************************)
PagesKeepRows ==
  \A filter \in SUBSET Regions : \A week \in Days :
    \A row \in ListCheckinsByWeek(filter, week) :
      \E next \in ListCheckinsByWeek(filter, week)' :
        next.id = row.id /\ row.observers \subseteq next.observers

BoardOnlyGrows == [][PagesKeepRows]_vars

================================================================================
