------------------------------- MODULE Groups -------------------------------
(***************************************************************************)
(* Player groups (Groups.cpp).  A Group object lists its members, the      *)
(* first of whom leads it; every member points back at the object; and the *)
(* client of every member displays a roster it is sent in PC_GROUP_JOIN    *)
(* and PC_GROUP_LEAVE packets.  The object is deleted with its last        *)
(* member, so a back pointer that outlives it would dangle.                *)
(*                                                                         *)
(* An invitation leaves no trace in the server: requestGroup() only checks *)
(* and forwards it, and refuseGroup() forwards the refusal.  Acceptance    *)
(* may therefore reach joinGroup() at any later time, after either player  *)
(* has joined, left or lead another group, and from anyone to anyone.      *)
(***************************************************************************)
EXTENDS Naturals, Sequences, FiniteSets, SequencesExt

CONSTANTS
  Players,   \* the players that may log in
  GroupIds,  \* addresses of Group objects
  NoGroup    \* nullptr

ASSUME NoGroupIsNoAddress == NoGroup \notin GroupIds

MaxSize == 4

VARIABLES
  online,   \* PlayerManager::players
  group,    \* Player::group
  members,  \* Group::members, <<>> where no object is allocated
  roster    \* the members the client of each player displays

vars == <<online, group, members, roster>>

Allocated == {g \in GroupIds : members[g] # <<>>}

-----------------------------------------------------------------------------
(* The handlers of one packet work on the three parts of a group at once.  *)

State == [group |-> group, members |-> members, roster |-> roster]

Becomes(s) == /\ group' = s.group
              /\ members' = s.members
              /\ roster' = s.roster

\* Every member is sent the roster; who has left is sent an empty one.
Announce(s, g) ==
  [s EXCEPT !.roster = [p \in Players |->
     IF p \in ToSet(s.members[g]) THEN ToSet(s.members[g]) ELSE @[p]]]

\* Mutant: only the new member is sent the roster.
AddQuietly(s, g, p) ==
  [s EXCEPT !.group[p] = g, !.members[g] = Append(@, p),
            !.roster[p] = ToSet(s.members[g]) \cup {p}]

AddToGroup(s, g, p) ==
  Announce([s EXCEPT !.group[p] = g, !.members[g] = Append(@, p)], g)

IndexIn(seq, p) == CHOOSE k \in DOMAIN seq : seq[k] = p

\* Mutant: the back pointer survives.
DetachFromList(s, g, p) ==
  Announce([s EXCEPT !.roster[p] = {},
                     !.members[g] = IF p \in ToSet(@) THEN RemoveAt(@, IndexIn(@, p)) ELSE @],
           g)

Detach(s, g, p) ==
  Announce([s EXCEPT !.group[p] = NoGroup,
                     !.roster[p] = {},
                     !.members[g] = IF p \in ToSet(@) THEN RemoveAt(@, IndexIn(@, p)) ELSE @],
           g)

\* A group of one is no group: its last member is removed too.
RemoveFromGroup(s, g, p) ==
  LET d == Detach(s, g, p)
  IN IF Len(d.members[g]) = 1 THEN Detach(d, g, d.members[g][1]) ELSE d

\* disbandGroup() removes the last member until the object is deleted.
DisbandGroup(s, g) ==
  [group |-> [p \in Players |->
                IF p \in ToSet(s.members[g]) THEN NoGroup ELSE s.group[p]],
   members |-> [s.members EXCEPT ![g] = <<>>],
   roster |-> [p \in Players |->
                IF p \in ToSet(s.members[g]) THEN {} ELSE s.roster[p]]]

GroupKick(s, g, p) ==
  IF g = NoGroup THEN s
  ELSE IF s.members[g][1] = p THEN DisbandGroup(s, g)
  ELSE RemoveFromGroup(s, g, p)

-----------------------------------------------------------------------------

Init ==
  /\ online = {}
  /\ group = [p \in Players |-> NoGroup]
  /\ members = [g \in GroupIds |-> <<>>]
  /\ roster = [p \in Players |-> {}]

\* enterPlayer(): plr->group = nullptr.
Login(p) ==
  /\ p \notin online
  /\ online' = online \cup {p}
  /\ group' = [group EXCEPT ![p] = NoGroup]
  /\ roster' = [roster EXCEPT ![p] = {}]
  /\ UNCHANGED members

\* Mutants: one member too many; from one group into another.
JoinFullGroup(q, p) ==
  /\ q \in online /\ p \in online /\ p # q
  /\ group[q] = NoGroup
  /\ IF group[p] = NoGroup
     THEN \E g \in GroupIds \ Allocated :
            Becomes(AddToGroup(AddToGroup(State, g, p), g, q))
     ELSE /\ Len(members[group[p]]) <= MaxSize
          /\ Becomes(AddToGroup(State, group[p], q))
  /\ UNCHANGED online

JoinAnotherGroup(q, p) ==
  /\ q \in online /\ p \in online /\ p # q
  /\ IF group[p] = NoGroup
     THEN \E g \in GroupIds \ Allocated :
            Becomes(AddToGroup(AddToGroup(State, g, p), g, q))
     ELSE /\ Len(members[group[p]]) + 1 <= MaxSize
          /\ Becomes(AddToGroup(State, group[p], q))
  /\ UNCHANGED online

\* joinGroup(): q accepts the invitation of p.  A client accepts an
\* invitation of somebody else.
JoinGroup(q, p) ==
  /\ q \in online /\ p \in online /\ p # q
  /\ group[q] = NoGroup
  /\ IF group[p] = NoGroup
     THEN \E g \in GroupIds \ Allocated :
            Becomes(AddToGroup(AddToGroup(State, g, p), g, q))
     ELSE /\ Len(members[group[p]]) + 1 <= MaxSize
          /\ Becomes(AddToGroup(State, group[p], q))
  /\ UNCHANGED online

LeaveGroup(p) ==
  /\ p \in online /\ group[p] # NoGroup
  /\ Becomes(GroupKick(State, group[p], p))
  /\ UNCHANGED online

\* removePlayer() of any player that exits, times out or is kicked.
Logout(p) ==
  /\ p \in online
  /\ online' = online \ {p}
  /\ Becomes(GroupKick(State, group[p], p))

Next ==
  \/ \E p \in Players : Login(p)
  \/ \E p, q \in Players : JoinGroup(q, p)
  \/ \E p \in Players : LeaveGroup(p)
  \/ \E p \in Players : Logout(p)

Spec == Init /\ [][Next]_vars

-----------------------------------------------------------------------------

\* The type of the state; no member list outgrows the packets that carry it.
TypeOK ==
  /\ online \subseteq Players
  /\ group \in [Players -> GroupIds \cup {NoGroup}]
  /\ members \in [GroupIds -> BoundedSeq(Players, MaxSize)]
  /\ roster \in [Players -> SUBSET Players]

\* Back pointers and member lists agree: a player points at the object that
\* lists it, once, and at none that was deleted ("no dangling pointers here"),
\* and only players of this shard are listed.  sendToGroup(), the sharing of
\* kills and every warp of a group walk the list with getPlayer(), which
\* yields a null pointer for a socket that is gone.
PointersAgree ==
  \A g \in GroupIds :
    /\ IsInjective(members[g]) /\ ToSet(members[g]) \subseteq online
    /\ \A p \in Players : group[p] = g <=> p \in ToSet(members[g])

\* What a client displays is the group its player is in.
RostersAgree ==
  \A p \in Players :
    roster[p] = IF group[p] = NoGroup THEN {} ELSE ToSet(members[group[p]])

\* The lists of all groups are parties, and change as parties do.
Abstract == INSTANCE Parties WITH parties <- {members[g] : g \in Allocated}
ImplementsParties == Abstract!Spec
=============================================================================
