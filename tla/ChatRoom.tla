------------------------------ MODULE ChatRoom ------------------------------
(***************************************************************************)
(* What the chat server of Assign2 promises its users: a room.  Whoever    *)
(* comes in is greeted with the names of those present, or turned away     *)
(* when the room is full; what a member says is heard by every member      *)
(* under the speaker's current name; a member may change its own name.     *)
(* The room may fall in while somebody is being heard.                     *)
(***************************************************************************)
EXTENDS Naturals, Sequences

CONSTANTS People, Capacity,
          Sayings,      \* what a member may say
          Renamings,    \* what a member may ask to be called
          Default(_)    \* the name of a newcomer

VARIABLES members,    \* those in the room, in the order they came
          named,      \* the name each member goes by
          heard,      \* what each person has heard since it came
          open        \* FALSE once the room fell in

avars == <<members, named, heard, open>>

AInit == /\ members = << >>
         /\ named = << >>
         /\ heard = [p \in People |-> << >>]
         /\ open = TRUE

Place(p) == {k \in DOMAIN members : members[k] = p}

(* A person that comes back starts with a clean ear. *)
Arrive(p) == /\ Place(p) = {}
             /\ heard' = [heard EXCEPT ![p] = << >>]
             /\ UNCHANGED <<members, named, open>>

Join(p) == /\ open /\ Place(p) = {} /\ Len(members) < Capacity
           /\ members' = Append(members, p)
           /\ named' = Append(named, Default(Len(members)))
           /\ heard' = [heard EXCEPT ![p] = Append(@, [welcome |-> named])]
           /\ UNCHANGED open

TurnAway(p) == /\ open /\ Place(p) = {} /\ Len(members) = Capacity
               /\ heard' = [heard EXCEPT ![p] = Append(@, [sorry |-> TRUE])]
               /\ UNCHANGED <<members, named, open>>

Rename(k, text) == /\ open
                   /\ named' = [named EXCEPT ![k] = text]
                   /\ UNCHANGED <<members, heard, open>>

(* Everybody in the places 1 .. last hears what the member at place k says. *)
Hear(k, text, last) ==
  heard' = [p \in People |->
              IF \E j \in Place(p) : j <= last
                THEN Append(heard[p], [from |-> named[k], text |-> text])
                ELSE heard[p]]

Say(k, text) == /\ open
                /\ Hear(k, text, Len(members))
                /\ UNCHANGED <<members, named, open>>

FallIn(k, text) == /\ open
                   /\ \E last \in 0 .. Len(members) - 1 : Hear(k, text, last)
                   /\ open' = FALSE
                   /\ UNCHANGED <<members, named>>

Leave(k) == /\ open
            /\ LET Closed(s) == [j \in 1 .. Len(s) - 1 |-> IF j < k THEN s[j] ELSE s[j + 1]]
               IN /\ members' = Closed(members)
                  /\ named' = Closed(named)
            /\ UNCHANGED <<heard, open>>

ANext == \/ \E p \in People : Arrive(p) \/ Join(p) \/ TurnAway(p)
         \/ \E k \in DOMAIN members :
              \/ Leave(k)
              \/ \E t \in Renamings : Rename(k, t)
              \/ \E t \in Sayings : Say(k, t) \/ FallIn(k, t)

ASpec == AInit /\ [][ANext]_avars
=============================================================================
