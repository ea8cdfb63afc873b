-------------------------- MODULE FileFoldersProofs --------------------------
(***************************************************************************)
(* Proofs about FileFolders.tla, for any sets of addresses, IDs, names and *)
(* configurations, any number of polls and of troubles, and reads that are *)
(* current or may be of an older revision.                                 *)
(*                                                                         *)
(* The invariant says where a handler stands and what it relies on there   *)
(* (Standing), that a folder which a change needs as its parent is settled *)
(* (Settled), that addresses which have their folders to themselves refer  *)
(* to different ones (Alone), that a folder about to be renamed on its own *)
(* has only strays in it (Leaves), and what a run without interference has *)
(* achieved so far (Refreshed, Achieved).                                  *)
(***************************************************************************)
EXTENDS FileFolders, TLAPS

Running(a) == pc[a] \notin {"ready", "done"}
Changes(a) == op[a] \in {"create", "update"}

\* Which handler stands where, and whether its address has a folder.
Stages ==
  [none |-> {}, read |-> {"get"}, create |-> {"ready", "collide", "write", "confirm"},
   update |-> {"ready", "files", "children", "collide", "parent", "write", "task", "verify"},
   delete |-> {"ready", "empty", "nofiles", "write", "absent"}]

StandsAt(a) ==
  /\ pc[a] # "done" => pc[a] \in Stages[op[a]]
  /\ phase = "refresh" => op[a] \in {"none", "read"}
  /\ phase = "apply" => op[a] # "read"
  /\ pc[a] # "done" => (state[a] = None <=> op[a] = "create")
  /\ Changes(a) => config[a] # None
  /\ pc[a] = "confirm" => hand[a] \in Ids
  /\ phase = "apply" /\ op[a] = "delete" /\ pc[a] = "done" /\ a \notin erred => state[a] = None
  /\ phase = "refresh" /\ op[a] = "none" => state[a] = None
  /\ a \in tainted => state[a] # None
  /\ phase = "apply" /\ a \in tainted =>
       a \in erred \/ (op[a] = "delete" /\ pc[a] # "done")
Standing == (phase = "idle" => AllDone) /\ \A a \in Addresses : StandsAt(a)

\* The folder around that of a has an ID that stays, or is even left alone.
Rests(a) ==
  LET u == config[a].under
  IN  u \in Addresses => /\ state[u] # None /\ u \notin tainted
                         /\ pc[u] = "done" \/ op[u] \in {"none", "update"}
Grounded(a) == config[a].under \in Addresses => pc[config[a].under] = "done"

Settled == \A a \in Addresses : Changes(a) /\ Running(a) => Rests(a) /\ Grounded(a)

\* Different addresses have different folders, and a new one is nobody's yet.
Alone ==
  phase # "idle" /\ quiet =>
    \A a, b \in Addresses :
      /\ a # b /\ state[a] # None /\ state[b] # None => state[a].id # state[b].id
      /\ pc[a] = "confirm" /\ state[b] # None => hand[a] \notin {state[b].id, state[b].parent}
      /\ pc[a] = "confirm" /\ config[b] # None => hand[a] # config[b].under
      /\ a # b /\ pc[a] = "confirm" /\ pc[b] = "confirm" => hand[a] # hand[b]

\* A folder that is about to be renamed on its own has no folders in it but those
\* that came after its handler had looked.
Leaves ==
  phase = "apply" =>
    \A a \in Addresses :
      /\ op[a] = "update" /\ pc[a] \in {"collide", "parent", "write"}
      /\ a \notin async /\ state[a].name # config[a].name
      => ChildFolders(state[a].id) \subseteq strays

\* The portal has the folder as it is in state.
InSync(a) ==
  /\ folders[state[a].id] # None
  /\ folders[state[a].id].name = state[a].name
  /\ folders[state[a].id].parent = state[a].parent

Refreshed ==
  phase = "refresh" /\ quiet /\ ~lagging =>
    /\ \A i \in Ids : before[i] = None
    /\ \A a \in Addresses : pc[a] = "done" /\ a \notin erred /\ state[a] # None => InSync(a)

\* What a handler has reached for its address.
Reached(a) ==
  /\ op[a] = "none" => AsConfigured(a) /\ (config[a] # None => Rests(a))
  /\ op[a] = "update" /\ pc[a] \notin {"verify", "done"} =>
       InSync(a) /\ before[state[a].id] = None /\ result[a] = -1
  /\ op[a] = "update" /\ pc[a] \in {"children", "collide", "parent", "write", "task"}
       /\ state[a].name # config[a].name => ~folders[state[a].id].files
  /\ op[a] = "update" /\ pc[a] = "verify" =>
       AsConfigured(a) \/ (before[state[a].id] = None /\ result[a] = -1)
  /\ pc[a] = "confirm" => before[hand[a]] = None
  /\ Changes(a) /\ pc[a] = "done" /\ a \notin erred => AsConfigured(a) /\ Rests(a)

Achieved == phase = "apply" /\ quiet /\ ~lagging => \A a \in Addresses : Reached(a)

IInv ==
  /\ TypeOK /\ Standing /\ Settled /\ Alone /\ Leaves /\ Refreshed /\ Achieved

----------------------------------------------------------------------------
(* A step of one address, as the others see it.                            *)

\* What a step of b leaves to the others, and what it does to the portal.
Touches(b) ==
  /\ config' = config /\ phase' = phase /\ lagging' = lagging /\ (quiet' => quiet)
  /\ \A a \in Addresses \ {b} :
       /\ state'[a] = state[a] /\ pc'[a] = pc[a] /\ op'[a] = op[a] /\ hand'[a] = hand[a]
       /\ a \in tainted' <=> a \in tainted
       /\ a \in erred' <=> a \in erred
       /\ a \in async' <=> a \in async
       /\ quiet' => result'[a] = result[a]
  /\ quiet' => \A i \in Ids :
       \/ folders'[i] = folders[i] /\ before'[i] = before[i]
       \/ state[b] # None /\ i = state[b].id
       \/ folders[i] = None /\ before'[i] = before[i]
  /\ strays \subseteq strays'
  /\ \A i \in Placed :
       /\ Changes(b) /\ Running(b)
       /\ \A a \in Looked(folders'[i].parent) : a # config[b].under => i \in strays'

\* What a step of b may do to its own address.
Moves(b) ==
  /\ pc[b] = "done" => state[b] = None /\ op'[b] = "create"
  /\ op'[b] # op[b] => state[b] = None /\ op'[b] = "create"
  /\ pc'[b] # "done" => state'[b] = state[b]
  /\ state[b] # None /\ state'[b] # None => state'[b].id = state[b].id
  /\ state[b] # None /\ state'[b] = None => op[b] \in {"read", "delete"}
  /\ state[b] = None /\ state'[b] # None => pc[b] = "confirm" /\ state'[b].id = hand[b]
  /\ state'[b] # None /\ state'[b] # state[b] =>
       phase = "refresh" \/ (Changes(b) /\ Rests(b) /\ state'[b].parent = Parent(b))
  /\ b \in tainted' \ tainted => pc[b] = "confirm"
  /\ b \in tainted \ tainted' => state'[b] = None

\* An ID that no address has heard of.
Unknown(i) ==
  \A a \in Addresses : /\ state[a] # None => i \notin {state[a].id, state[a].parent}
                       /\ pc[a] = "confirm" => i # hand[a]
                       /\ config[a] # None => i # config[a].under

LEMMA Constants ==
  /\ \A i \in Ids : i # Root
  /\ \A c \in Configs, a \in Addresses : c[a] # None =>
       c[a] \in Defs /\ c[a].name \in Names /\ c[a].under \in Addresses \cup Ids \cup {None}
  /\ \A s \in States : s # None /\ s.id \in Ids /\ s.name \in Names /\ s.parent \in Ids \cup {Root}
<1>1. \A i \in Ids : i # Root
  BY FolderAssumption DEF Root
<1>2. ASSUME NEW c \in Configs, NEW a \in Addresses, c[a] # None
      PROVE  c[a] \in Defs /\ c[a].name \in Names /\ c[a].under \in Addresses \cup Ids \cup {None}
  <2>1. c[a] \in Defs
    BY <1>2, FolderAssumption
  <2> QED BY <2>1 DEF Defs
<1>3. ASSUME NEW s \in States
      PROVE  s # None /\ s.id \in Ids /\ s.name \in Names /\ s.parent \in Ids \cup {Root}
  BY <1>3, FolderAssumption DEF States
<1> QED BY <1>1, <1>2, <1>3

\* A folder that rests stays the parent it is.
LEMMA RestsKeeps ==
  ASSUME IInv, NEW b \in Addresses, Touches(b), Moves(b),
         NEW a \in Addresses, config[a] # None, Rests(a)
  PROVE  Rests(a)' /\ Parent(a)' = Parent(a) /\ (Grounded(a) => Grounded(a)')
<1>1. config' = config /\ config \in Configs
  BY DEF Touches, IInv, TypeOK
<1>2. CASE config[a].under \notin Addresses
  BY <1>1, <1>2 DEF Rests, Parent, Grounded
<1>3. ASSUME NEW u \in Addresses, u = config[a].under
      PROVE  Rests(a)' /\ Parent(a)' = Parent(a) /\ (Grounded(a) => Grounded(a)')
  <2>1. state[u] # None /\ u \notin tainted /\ (pc[u] = "done" \/ op[u] \in {"none", "update"})
    BY <1>3 DEF Rests
  <2>2. CASE u # b
    <3>1. state'[u] = state[u] /\ pc'[u] = pc[u] /\ op'[u] = op[u]
          /\ (u \in tainted' <=> u \in tainted)
      BY <2>2 DEF Touches
    <3> QED BY <1>1, <1>3, <2>1, <3>1 DEF Rests, Parent, Grounded
  <2>3. CASE u = b
    <3>1. pc[b] # "done" /\ op'[b] = op[b] /\ op[b] \in {"none", "update"}
      BY <2>1, <2>3 DEF Moves
    <3>2. state'[b] # None /\ state'[b].id = state[b].id
      BY <2>1, <2>3, <3>1 DEF Moves
    <3>3. op[b] = "update" /\ pc[b] # "confirm"
      BY <3>1 DEF IInv, Standing, StandsAt, Stages
    <3>4. b \notin tainted'
      BY <2>1, <2>3, <3>3 DEF Moves
    <3>5. ~Grounded(a)
      BY <1>3, <2>3, <3>1 DEF Grounded
    <3> QED BY <1>1, <1>3, <2>1, <2>3, <3>1, <3>2, <3>4, <3>5 DEF Rests, Parent
  <2> QED BY <2>2, <2>3
<1> QED BY <1>2, <1>3

\* What others do does not reach the folder of an address that has it alone.
LEMMA Elsewhere ==
  ASSUME IInv, NEW b \in Addresses, phase # "idle", Touches(b), quiet',
         NEW a \in Addresses, a # b
  PROVE  /\ state[a] # None =>
              /\ before'[state[a].id] = before[state[a].id]
              /\ folders[state[a].id] # None => folders'[state[a].id] = folders[state[a].id]
         /\ pc[a] = "confirm" => before'[hand[a]] = before[hand[a]]
<1>1. quiet /\ Alone
  BY DEF Touches, IInv
<1>2. \A i \in Ids : \/ folders'[i] = folders[i] /\ before'[i] = before[i]
                     \/ state[b] # None /\ i = state[b].id
                     \/ folders[i] = None /\ before'[i] = before[i]
  BY DEF Touches
<1>3. ASSUME state[a] # None
      PROVE  /\ before'[state[a].id] = before[state[a].id]
             /\ folders[state[a].id] # None => folders'[state[a].id] = folders[state[a].id]
  <2>1. state[a].id \in Ids
    BY <1>3, Constants DEF IInv, TypeOK
  <2>2. state[b] # None => state[a].id # state[b].id
    BY <1>1, <1>3 DEF Alone
  <2> QED BY <1>2, <2>1, <2>2
<1>4. ASSUME pc[a] = "confirm"
      PROVE  before'[hand[a]] = before[hand[a]]
  <2>1. hand[a] \in Ids
    BY <1>4 DEF IInv, Standing, StandsAt
  <2>2. state[b] # None => hand[a] # state[b].id
    BY <1>1, <1>4 DEF Alone
  <2> QED BY <1>2, <2>1, <2>2
<1> QED BY <1>3, <1>4

LEMMA AloneKeeps ==
  ASSUME IInv, NEW b \in Addresses, phase # "idle", Touches(b), Moves(b),
         quiet' /\ pc'[b] = "confirm" =>
           (pc[b] = "confirm" /\ hand'[b] = hand[b]) \/ Unknown(hand'[b])
  PROVE  Alone'
<1> SUFFICES ASSUME quiet', NEW a \in Addresses, NEW c \in Addresses
    PROVE  /\ a # c /\ state'[a] # None /\ state'[c] # None => state'[a].id # state'[c].id
           /\ pc'[a] = "confirm" /\ state'[c] # None =>
                hand'[a] \notin {state'[c].id, state'[c].parent}
           /\ pc'[a] = "confirm" /\ config'[c] # None => hand'[a] # config'[c].under
           /\ a # c /\ pc'[a] = "confirm" /\ pc'[c] = "confirm" => hand'[a] # hand'[c]
  BY DEF Alone
<1>1. \A x, y \in Addresses :
        /\ x # y /\ state[x] # None /\ state[y] # None => state[x].id # state[y].id
        /\ pc[x] = "confirm" /\ state[y] # None => hand[x] \notin {state[y].id, state[y].parent}
        /\ pc[x] = "confirm" /\ config[y] # None => hand[x] # config[y].under
        /\ x # y /\ pc[x] = "confirm" /\ pc[y] = "confirm" => hand[x] # hand[y]
  BY DEF IInv, Alone, Touches
<1>2. \A x \in Addresses : x # b =>
        state'[x] = state[x] /\ pc'[x] = pc[x] /\ hand'[x] = hand[x]
  BY DEF Touches
<1>3. \A x \in Addresses : state'[x] # None =>
        \/ state[x] # None /\ state'[x].id = state[x].id
        \/ x = b /\ pc[b] = "confirm" /\ state'[b].id = hand[b] /\ pc'[b] = "done"
  <2>1. state'[b] # None =>
          \/ state[b] # None /\ state'[b].id = state[b].id
          \/ pc[b] = "confirm" /\ state'[b].id = hand[b] /\ pc'[b] = "done"
    BY DEF Moves
  <2> QED BY <1>2, <2>1
<1>4. \A x \in Addresses : pc'[x] = "confirm" =>
        \/ pc[x] = "confirm" /\ hand'[x] = hand[x]
        \/ x = b /\ Unknown(hand'[b])
  BY <1>2
<1>5. a # c /\ state'[a] # None /\ state'[c] # None => state'[a].id # state'[c].id
  BY <1>1, <1>3
<1>6. ASSUME pc'[a] = "confirm", state'[c] # None
      PROVE  hand'[a] \notin {state'[c].id, state'[c].parent}
  <2>1. CASE pc[a] = "confirm" /\ hand'[a] = hand[a]
    <3>1. hand[a] # state'[c].id
      BY <1>1, <1>3, <1>6, <2>1
    <3>2. CASE state'[c] = state[c]
      BY <1>1, <1>6, <2>1, <3>1, <3>2
    <3>3. CASE state'[c] # state[c]
      <4>1. c = b /\ phase # "refresh" /\ hand[a] \in Ids
        BY <1>2, <2>1, <3>3 DEF IInv, Standing, StandsAt, Stages
      <4>2. Rests(b) /\ state'[b].parent = Parent(b) /\ config[b] # None
        BY <1>6, <3>3, <4>1 DEF IInv, Standing, StandsAt, Moves
      <4>3. CASE config[b].under \notin Addresses
        <5>1. Parent(b) \in {Root, config[b].under}
          BY <4>3 DEF Parent
        <5>2. hand[a] # config[b].under
          BY <1>1, <2>1, <4>2
        <5> QED BY <2>1, <3>1, <4>1, <4>2, <5>1, <5>2, Constants
      <4>4. ASSUME NEW u \in Addresses, u = config[b].under
            PROVE  hand'[a] \notin {state'[c].id, state'[c].parent}
        <5>1. state[u] # None /\ Parent(b) = state[u].id
          BY <4>2, <4>4 DEF Rests, Parent
        <5> QED BY <1>1, <2>1, <3>1, <4>1, <4>2, <5>1
      <4> QED BY <4>3, <4>4
    <3> QED BY <3>2, <3>3
  <2>2. CASE a = b /\ Unknown(hand'[b])
    <3>1. state'[c] = state[c]
      BY <1>2, <1>6, <2>2 DEF Moves
    <3>2. \A i : Unknown(i) /\ state[c] # None => i \notin {state[c].id, state[c].parent}
      BY DEF Unknown
    <3> QED BY <1>6, <2>2, <3>1, <3>2
  <2> QED BY <1>4, <1>6, <2>1, <2>2
<1>7. ASSUME a # c, pc'[a] = "confirm", pc'[c] = "confirm"
      PROVE  hand'[a] # hand'[c]
  <2>1. \A i, x : Unknown(i) /\ x \in Addresses /\ pc[x] = "confirm" => i # hand[x]
    BY DEF Unknown
  <2> QED BY <1>1, <1>4, <1>7, <2>1
<1>8. ASSUME pc'[a] = "confirm", config'[c] # None
      PROVE  hand'[a] # config'[c].under
  <2>1. config' = config
    BY DEF Touches
  <2>2. \A i : Unknown(i) /\ config[c] # None => i # config[c].under
    BY DEF Unknown
  <2> QED BY <1>1, <1>4, <1>8, <2>1, <2>2
<1> QED BY <1>5, <1>6, <1>7, <1>8

\* Who puts a folder into one that is being renamed waits for that rename, or
\* leaves a stray.
LEMMA OnlyStraysArrive ==
  ASSUME IInv, NEW b \in Addresses, Touches(b), NEW a \in Addresses, state[a] # None,
         op[a] = "update", pc[a] \in {"collide", "parent", "write"},
         ChildFolders(state[a].id) \subseteq strays
  PROVE  \A i \in Ids : folders'[i] # None /\ folders'[i].parent = state[a].id => i \in strays'
<1> SUFFICES ASSUME NEW i \in Ids, folders'[i] # None, folders'[i].parent = state[a].id
             PROVE  i \in strays'
  OBVIOUS
<1>1. CASE i \notin Placed
  <2>1. i \in ChildFolders(state[a].id)
    BY <1>1 DEF Placed, ChildFolders
  <2> QED BY <2>1 DEF Touches
<1>2. CASE i \in Placed
  <2>1. /\ Changes(b) /\ Running(b)
        /\ \A c \in Looked(folders'[i].parent) : c # config[b].under => i \in strays'
    BY <1>2 DEF Touches
  <2>2. Grounded(b)
    BY <2>1 DEF IInv, Settled
  <2>3. a # config[b].under
    BY <2>2 DEF Grounded
  <2>4. a \in Looked(folders'[i].parent)
    BY DEF Looked, Knows
  <2> QED BY <2>1, <2>3, <2>4
<1> QED BY <1>1, <1>2

LEMMA LeavesKeeps ==
  ASSUME IInv, NEW b \in Addresses, phase # "idle", Touches(b), Moves(b),
         phase = "apply" /\ op'[b] = "update" /\ b \notin async'
             /\ pc'[b] \in {"collide", "parent", "write"} /\ state[b].name # config[b].name =>
           \A i \in Ids : folders'[i] # None /\ folders'[i].parent = state[b].id => i \in strays'
  PROVE  Leaves'
<1> SUFFICES ASSUME phase = "apply", NEW a \in Addresses, op'[a] = "update",
                    pc'[a] \in {"collide", "parent", "write"}, a \notin async',
                    state'[a].name # config[a].name
    PROVE \A i \in Ids : folders'[i] # None /\ folders'[i].parent = state'[a].id => i \in strays'
  BY DEF Leaves, Touches, ChildFolders
<1>1. CASE a = b
  BY <1>1 DEF Moves
<1>2. CASE a # b
  <2>1. /\ pc[a] \in {"collide", "parent", "write"} /\ a \notin async /\ op[a] = "update"
        /\ state'[a] = state[a] /\ state[a].name # config[a].name
    BY <1>2 DEF Touches
  <2>2. ChildFolders(state[a].id) \subseteq strays /\ state[a] # None
    BY <2>1 DEF IInv, Leaves, Standing, StandsAt
  <2> QED BY <2>1, <2>2, OnlyStraysArrive
<1> QED BY <1>1, <1>2

\* What a step that marks strays does to them.
LEMMA MarksDo ==
  ASSUME TypeOK, NEW w, MarkStrays(w)
  PROVE  /\ strays \subseteq strays' /\ strays' \subseteq Ids
         /\ \A i \in Placed : \A a \in Looked(folders'[i].parent) \ w : i \in strays'
         /\ folders' = folders => strays' = strays
BY DEF TypeOK, MarkStrays, Placed

\* What others do does not undo what has been reached.
LEMMA ReachedKeeps ==
  ASSUME IInv, NEW b \in Addresses, phase = "apply", Touches(b), Moves(b), quiet',
         NEW a \in Addresses, a # b, Reached(a)
  PROVE  Reached(a)'
<1>1. /\ state'[a] = state[a] /\ pc'[a] = pc[a] /\ op'[a] = op[a] /\ hand'[a] = hand[a]
      /\ (a \in erred' <=> a \in erred) /\ result'[a] = result[a] /\ config' = config
  BY DEF Touches
<1>2. /\ state[a] # None =>
           /\ before'[state[a].id] = before[state[a].id]
           /\ folders[state[a].id] # None => folders'[state[a].id] = folders[state[a].id]
      /\ pc[a] = "confirm" => before'[hand[a]] = before[hand[a]]
  BY Elsewhere
<1>3. config[a] # None /\ Rests(a) => Rests(a)' /\ Parent(a)' = Parent(a)
  BY RestsKeeps
<1>4. AsConfigured(a) /\ (config[a] # None => Rests(a)) => AsConfigured(a)'
  BY <1>1, <1>2, <1>3 DEF AsConfigured
<1>5. pc[a] # "done" /\ op[a] = "update" => state[a] # None /\ config[a] # None
  BY DEF IInv, Standing, StandsAt, Changes
<1>6. op'[a] = "none" => AsConfigured(a)' /\ (config'[a] # None => Rests(a)')
  BY <1>1, <1>3, <1>4 DEF Reached
<1>7. op'[a] = "update" /\ pc'[a] \notin {"verify", "done"} =>
        InSync(a)' /\ before'[state'[a].id] = None /\ result'[a] = -1
  BY <1>1, <1>2, <1>5 DEF Reached, InSync
<1>8. op'[a] = "update" /\ pc'[a] \in {"children", "collide", "parent", "write", "task"}
        /\ state'[a].name # config'[a].name => ~folders'[state'[a].id].files
  BY <1>1, <1>2, <1>5 DEF Reached, InSync
<1>9. op'[a] = "update" /\ pc'[a] = "verify" =>
        AsConfigured(a)' \/ (before'[state'[a].id] = None /\ result'[a] = -1)
  <2>1. op[a] = "update" /\ pc[a] = "verify" => Rests(a)
    BY DEF IInv, Settled, Changes, Running
  <2> QED BY <1>1, <1>2, <1>4, <1>5, <2>1 DEF Reached
<1>10. pc'[a] = "confirm" => before'[hand'[a]] = None
  BY <1>1, <1>2 DEF Reached
<1>11. Changes(a)' /\ pc'[a] = "done" /\ a \notin erred' => AsConfigured(a)' /\ Rests(a)'
  <2>1. Changes(a) => config[a] # None
    BY DEF IInv, Standing, StandsAt
  <2> QED BY <1>1, <1>3, <1>4, <2>1 DEF Reached, Changes
<1> QED BY <1>6, <1>7, <1>8, <1>9, <1>10, <1>11 DEF Reached

\* What has to be shown of a step of one address.
LEMMA StepKeeps ==
  ASSUME IInv, NEW b \in Addresses, phase # "idle", Touches(b), Moves(b),
         TypeOK', StandsAt(b)',
         (Changes(b) /\ Running(b))' => Rests(b) /\ Grounded(b),
         quiet' /\ pc'[b] = "confirm" =>
           (pc[b] = "confirm" /\ hand'[b] = hand[b]) \/ Unknown(hand'[b]),
         phase = "apply" /\ op'[b] = "update" /\ b \notin async'
             /\ pc'[b] \in {"collide", "parent", "write"} /\ state[b].name # config[b].name =>
           \A i \in Ids : folders'[i] # None /\ folders'[i].parent = state[b].id => i \in strays',
         phase = "refresh" /\ quiet' /\ ~lagging =>
           /\ \A i \in Ids : before'[i] = None
           /\ pc'[b] = "done" /\ b \notin erred' /\ state'[b] # None => InSync(b)',
         phase = "apply" /\ quiet' /\ ~lagging => Reached(b)'
  PROVE  IInv'
<1>1. config' = config /\ phase' = phase /\ lagging' = lagging /\ (quiet' => quiet)
  BY DEF Touches
<1>2. \A a \in Addresses : a # b =>
        /\ state'[a] = state[a] /\ pc'[a] = pc[a] /\ op'[a] = op[a] /\ hand'[a] = hand[a]
        /\ a \in tainted' <=> a \in tainted
        /\ a \in erred' <=> a \in erred
  BY DEF Touches
<1>3. Standing'
  <2>1. ASSUME NEW a \in Addresses, a # b
        PROVE  StandsAt(a)'
    <3>1. StandsAt(a)
      BY DEF IInv, Standing
    <3> QED BY <1>1, <1>2, <2>1, <3>1 DEF StandsAt, Changes
  <2> QED BY <1>1, <2>1 DEF Standing
<1>4. Settled'
  <2> SUFFICES ASSUME NEW a \in Addresses, (Changes(a) /\ Running(a))'
               PROVE  Rests(a)' /\ Grounded(a)'
    BY DEF Settled
  <2>1. config[a] # None
    BY <1>1, <1>3 DEF Standing, StandsAt
  <2>2. Rests(a) /\ Grounded(a)
    <3>1. CASE a = b
      BY <3>1
    <3>2. CASE a # b
      BY <1>2, <3>2 DEF IInv, Settled, Changes, Running
    <3> QED BY <3>1, <3>2
  <2> QED BY <2>1, <2>2, RestsKeeps
<1>5. Alone' /\ Leaves'
  BY AloneKeeps, LeavesKeeps
<1>6. Refreshed'
  <2> SUFFICES ASSUME phase = "refresh", quiet', ~lagging, NEW a \in Addresses, a # b,
                      pc[a] = "done", a \notin erred, state[a] # None
               PROVE  InSync(a)'
    BY <1>1, <1>2 DEF Refreshed
  <2>1. InSync(a)
    BY <1>1 DEF IInv, Refreshed
  <2>2. folders'[state[a].id] = folders[state[a].id] /\ state'[a] = state[a]
    BY <1>2, <2>1, Elsewhere DEF InSync
  <2> QED BY <2>1, <2>2 DEF InSync
<1>7. Achieved'
  <2> SUFFICES ASSUME phase = "apply", quiet', ~lagging, NEW a \in Addresses
               PROVE  Reached(a)'
    BY <1>1 DEF Achieved
  <2>1. CASE a = b
    BY <2>1
  <2>2. CASE a # b
    BY <1>1, <2>2, ReachedKeeps DEF IInv, Achieved
  <2> QED BY <2>1, <2>2
<1> QED BY <1>3, <1>4, <1>5, <1>6, <1>7 DEF IInv

----------------------------------------------------------------------------
(* What a handler does to its own variables.                               *)

Places == {"ready", "get", "collide", "files", "children", "parent", "write", "confirm",
           "task", "verify", "empty", "nofiles", "absent", "done"}
HandlerTyped ==
  /\ state \in [Addresses -> States \cup {None}] /\ age \in [Addresses -> 0..2]
  /\ tainted \subseteq Addresses /\ pc \in [Addresses -> Places]
  /\ count \in [Addresses -> 0..Attempts - 1] /\ streak \in [Addresses -> 0..Matches - 1]
  /\ async \subseteq Addresses /\ result \in [Addresses -> -1..2]
  /\ lock \in Addresses \cup {None} /\ erred \subseteq Addresses
PortalTyped ==
  /\ folders \in [Ids -> Folders \cup {None}]
  /\ before \in [Ids -> Revisions \cup {None}] /\ late \subseteq Requests
  /\ \A i \in Ids : folders[i] = None => before[i] = None
FrameTyped ==
  /\ config \in Configs /\ phase \in {"idle", "refresh", "apply"}
  /\ op \in [Addresses -> {"none", "read", "create", "update", "delete"}]
  /\ hand \in [Addresses -> Ids \cup {Root}]
  /\ quiet \in BOOLEAN /\ strays \subseteq Ids
  /\ lagging \in BOOLEAN /\ trouble \in 0..MaxTrouble

LEMMA Typed ==
  /\ TypeOK <=> HandlerTyped /\ PortalTyped /\ FrameTyped
  /\ TypeOK' <=> HandlerTyped' /\ PortalTyped' /\ FrameTyped'
BY DEF TypeOK, HandlerTyped, PortalTyped, FrameTyped, Places

\* A step that changes nothing of the other handlers.
Own(b) ==
  \A a \in Addresses \ {b} :
    /\ state'[a] = state[a] /\ pc'[a] = pc[a] /\ result'[a] = result[a]
    /\ a \in tainted' <=> a \in tainted
    /\ a \in erred' <=> a \in erred
    /\ a \in async' <=> a \in async

LEMMA FailDoes ==
  ASSUME TypeOK, NEW b \in Addresses, Fail(b)
  PROVE  /\ HandlerTyped' /\ Own(b) /\ pc'[b] = "done" /\ b \in erred'
         /\ UNCHANGED <<files, result, async>>
<1>1. HandlerTyped'
  BY Typed DEF HandlerTyped, Fail, Done, Goto, Unlock, files, poll, Places
<1>2. pc'[b] = "done" /\ \A a \in Addresses : a # b => pc'[a] = pc[a]
  BY DEF Fail, Done, Goto, TypeOK
<1> QED BY <1>1, <1>2 DEF Own, Fail, Done, files, poll

LEMMA ForgetDoes ==
  ASSUME TypeOK, NEW b \in Addresses, Forget(b)
  PROVE  /\ HandlerTyped' /\ Own(b) /\ pc'[b] = "done" /\ state'[b] = None
         /\ tainted' = tainted \ {b} /\ age'[b] = 0 /\ UNCHANGED <<erred, result, async>>
<1>1. /\ pc' = [pc EXCEPT ![b] = "done"] /\ state' = [state EXCEPT ![b] = None]
      /\ age' = [age EXCEPT ![b] = 0] /\ tainted' = tainted \ {b}
      /\ UNCHANGED <<erred, count, streak, async, result>> /\ lock' \in {None, lock}
  BY DEF Forget, Done, Goto, Unlock, poll
<1>2. HandlerTyped'
  BY <1>1, Typed DEF HandlerTyped, Places
<1> QED BY <1>1, <1>2 DEF Own, TypeOK

LEMMA RecordDoes ==
  ASSUME TypeOK, NEW b \in Addresses, NEW f \in States, NEW n \in 0..2, Record(b, f, n)
  PROVE  /\ HandlerTyped' /\ Own(b) /\ pc'[b] = "done" /\ state'[b] = f /\ age'[b] = n
         /\ UNCHANGED <<tainted, erred, result, async>>
<1>1. /\ pc' = [pc EXCEPT ![b] = "done"] /\ state' = [state EXCEPT ![b] = f]
      /\ age' = [age EXCEPT ![b] = n]
      /\ UNCHANGED <<tainted, erred, count, streak, async, result>> /\ lock' \in {None, lock}
  BY DEF Record, Done, Goto, Unlock, poll
<1>2. HandlerTyped'
  BY <1>1, Typed DEF HandlerTyped, Places
<1> QED BY <1>1, <1>2 DEF Own, TypeOK

LEMMA ContinueDoes ==
  ASSUME TypeOK, NEW b \in Addresses, NEW l \in Places, Continue(b, l)
  PROVE  /\ HandlerTyped' /\ Own(b) /\ pc'[b] = l /\ UNCHANGED <<files, erred, result, async>>
<1>1. /\ pc' = [pc EXCEPT ![b] = l] /\ count' = [count EXCEPT ![b] = 0]
      /\ UNCHANGED <<state, age, tainted, streak, async, result, lock, erred>>
  BY DEF Continue, Goto, files
<1>2. 0 \in 0..Attempts - 1
  BY FolderAssumption
<1>3. HandlerTyped'
  BY <1>1, <1>2, Typed DEF HandlerTyped
<1> QED BY <1>1, <1>3 DEF Own, TypeOK, files

LEMMA PollAgainDoes ==
  ASSUME TypeOK, NEW b \in Addresses, NEW l \in Places, PollAgain(b, l)
  PROVE  /\ HandlerTyped' /\ Own(b) /\ pc'[b] = l /\ UNCHANGED <<files, erred, result, async>>
<1>1. /\ pc' = [pc EXCEPT ![b] = l] /\ count' = [count EXCEPT ![b] = count[b] + 1]
      /\ UNCHANGED <<state, age, tainted, streak, async, result, lock, erred>>
  BY DEF PollAgain, Goto, files
<1>2. count[b] + 1 \in 0..Attempts - 1
  BY FolderAssumption DEF TypeOK, PollAgain
<1>3. HandlerTyped'
  BY <1>1, <1>2, Typed DEF HandlerTyped
<1> QED BY <1>1, <1>3 DEF Own, TypeOK, files

\* A handler that runs belongs to a run, and is one of the kinds there are.
LEMMA Where ==
  ASSUME IInv, NEW b \in Addresses, pc[b] # "done"
  PROVE  /\ phase \in {"refresh", "apply"} /\ op[b] \in {"read", "create", "update", "delete"}
         /\ op[b] = "read" <=> phase = "refresh"
         /\ pc[b] \in Stages[op[b]]
         /\ state[b] = None <=> op[b] = "create"
         /\ Changes(b) => config[b] # None
         /\ Changes(b) /\ Running(b) => Rests(b) /\ Grounded(b)
         /\ op[b] # "create" => state[b] \in States /\ state[b].id \in Ids
<1>1. phase \in {"refresh", "apply"}
  BY DEF IInv, Standing, AllDone, TypeOK
<1>2. StandsAt(b)
  BY DEF IInv, Standing
<1>3. pc[b] \in Stages[op[b]] /\ (state[b] = None <=> op[b] = "create")
  BY <1>2 DEF StandsAt
<1>4. op[b] \in {"read", "create", "update", "delete"}
  BY <1>3 DEF IInv, TypeOK, Stages
<1>5. op[b] = "read" <=> phase = "refresh"
  BY <1>1, <1>2, <1>4 DEF StandsAt
<1>6. op[b] # "create" => state[b] \in States /\ state[b].id \in Ids
  BY <1>3, Constants DEF IInv, TypeOK
<1> QED BY <1>1, <1>2, <1>3, <1>4, <1>5, <1>6 DEF IInv, Settled, StandsAt

\* A step that leaves the folders as they are.
LEMMA Harmless ==
  ASSUME IInv, NEW b \in Addresses, Own(b), UNCHANGED <<folders, before, frame, quiet, lagging>>
  PROVE  Touches(b)
BY DEF Touches, Own, frame, Placed

\* A handler that ends with an error, whatever it has done to the folders.
LEMMA ErringKeeps ==
  ASSUME IInv, NEW b \in Addresses, pc[b] # "done", Touches(b), TypeOK',
         pc'[b] = "done", b \in erred', op' = op, state' = state, tainted' = tainted,
         phase = "refresh" => before' = before
  PROVE  IInv'
<1>1. phase # "idle" /\ config' = config /\ phase' = phase
  BY Where DEF Touches
<1>2. StandsAt(b) /\ op[b] \in {"read", "create", "update", "delete"}
  BY Where DEF IInv, Standing
<1>3. StandsAt(b)'
  BY <1>1, <1>2 DEF StandsAt, Changes
<1>4. Moves(b)
  BY DEF Moves
<1>5. Reached(b)'
  BY <1>2 DEF Reached
<1>6. phase = "refresh" /\ quiet' /\ ~lagging => \A i \in Ids : before'[i] = None
  BY DEF IInv, Refreshed, Touches
<1> QED BY <1>1, <1>3, <1>4, <1>5, <1>6, StepKeeps DEF Running

LEMMA FailKeeps ==
  ASSUME IInv, NEW b \in Addresses, pc[b] # "done", Fail(b),
         UNCHANGED <<folders, before, frame, quiet, lagging>>,
         late' \subseteq Requests, trouble' \in 0..MaxTrouble
  PROVE  IInv'
<1>1. TypeOK
  BY DEF IInv
<1>2. /\ HandlerTyped' /\ Own(b) /\ pc'[b] = "done" /\ b \in erred'
      /\ UNCHANGED <<state, tainted>>
  BY <1>1, FailDoes DEF files
<1>3. PortalTyped' /\ FrameTyped'
  BY <1>1, Typed DEF PortalTyped, FrameTyped, frame
<1>4. TypeOK'
  BY <1>2, <1>3, Typed
<1> QED BY <1>2, <1>4, Harmless, ErringKeeps DEF frame

\* A handler that goes on to another place and leaves the folders as they are.
LEMMA WithinKeeps ==
  ASSUME IInv, NEW b \in Addresses, pc[b] # "done", HandlerTyped', Own(b),
         UNCHANGED <<folders, before, frame, quiet, lagging, state, tainted, erred, result>>,
         late' \subseteq Requests, trouble' \in 0..MaxTrouble,
         pc'[b] \in Stages[op[b]] \ {"confirm", "ready"},
         Changes(b) => Rests(b) /\ Grounded(b),
         pc[b] = "verify" => pc'[b] = "verify",
         op[b] = "update" /\ pc'[b] \in {"collide", "parent", "write"} /\ b \notin async'
           /\ state[b].name # config[b].name => ChildFolders(state[b].id) \subseteq strays,
         quiet /\ ~lagging /\ op[b] = "update" /\ state[b].name # config[b].name
           /\ pc'[b] \in {"children", "collide", "parent", "write", "task"} =>
           ~folders[state[b].id].files
  PROVE  IInv'
<1>1. /\ phase \in {"refresh", "apply"} /\ op[b] \in {"read", "create", "update", "delete"}
      /\ op[b] = "read" <=> phase = "refresh"
      /\ state[b] = None <=> op[b] = "create"
      /\ Changes(b) => config[b] # None
  BY Where
<1>2. /\ op' = op /\ hand' = hand /\ config' = config /\ phase' = phase
      /\ pc'[b] # "done" /\ pc'[b] \notin {"confirm", "ready"} /\ pc'[b] \in Stages[op[b]]
  BY <1>1 DEF frame, Stages
<1>3. TypeOK'
  <2>1. PortalTyped' /\ FrameTyped'
    BY Typed DEF IInv, PortalTyped, FrameTyped, frame
  <2> QED BY <2>1, Typed
<1>4. StandsAt(b)'
  <2>1. StandsAt(b)
    BY DEF IInv, Standing
  <2>2. phase = "apply" /\ b \in tainted => b \in erred \/ op[b] = "delete"
    BY <2>1 DEF StandsAt
  <2> QED BY <1>1, <1>2, <2>1, <2>2 DEF StandsAt, Changes
<1>5. Touches(b) /\ Moves(b)
  BY <1>2, Harmless DEF Moves
<1>6. (Changes(b) /\ Running(b))' => Rests(b) /\ Grounded(b)
  BY <1>2 DEF Changes
<1>7. ASSUME phase = "apply", quiet', ~lagging
      PROVE  Reached(b)'
  <2>1. Reached(b)
    BY <1>7 DEF IInv, Achieved
  <2>2. op[b] # "none" /\ quiet
    BY <1>1, <1>7
  <2>3. CASE op[b] = "update"
    <3>1. pc'[b] # "verify" => InSync(b) /\ before[state[b].id] = None /\ result[b] = -1
      BY <2>1, <2>3 DEF Reached
    <3>2. pc'[b] # "verify" => InSync(b)'
      BY <3>1 DEF InSync
    <3>3. pc'[b] = "verify" =>
            AsConfigured(b) \/ (before[state[b].id] = None /\ result[b] = -1)
      BY <2>1, <2>3 DEF Reached
    <3>4. AsConfigured(b)' <=> AsConfigured(b)
      BY <1>2 DEF AsConfigured, Parent
    <3> QED BY <1>2, <1>7, <2>2, <2>3, <3>1, <3>2, <3>3, <3>4 DEF Reached
  <2>4. CASE op[b] # "update"
    BY <1>2, <2>2, <2>4 DEF Reached
  <2> QED BY <2>3, <2>4
<1>8. phase = "refresh" /\ quiet' /\ ~lagging => \A i \in Ids : before'[i] = None
  BY DEF IInv, Refreshed
<1>9. ASSUME op'[b] = "update", b \notin async', pc'[b] \in {"collide", "parent", "write"},
             state[b].name # config[b].name
      PROVE  \A i \in Ids : folders'[i] # None /\ folders'[i].parent = state[b].id => i \in strays'
  BY <1>2, <1>9 DEF ChildFolders, frame
<1> QED BY <1>1, <1>2, <1>3, <1>4, <1>5, <1>6, <1>7, <1>8, <1>9, StepKeeps

LEMMA ForgetKeeps ==
  ASSUME IInv, NEW b \in Addresses, pc[b] # "done", op[b] \in {"read", "delete"}, Forget(b),
         UNCHANGED <<portal, frame, quiet, lagging, trouble>>
  PROVE  IInv'
<1>1. /\ HandlerTyped' /\ Own(b) /\ pc'[b] = "done" /\ state'[b] = None
      /\ tainted' = tainted \ {b}
  BY ForgetDoes DEF IInv
<1>2. /\ folders' = folders /\ before' = before /\ late' = late
      /\ op' = op /\ config' = config /\ phase' = phase
  BY DEF portal, frame
<1>3. TypeOK'
  BY <1>1, <1>2, Typed DEF IInv, PortalTyped, FrameTyped, frame
<1>4. Touches(b) /\ Moves(b)
  BY <1>1, <1>2, Harmless DEF Moves
<1>5. StandsAt(b)'
  <2>1. StandsAt(b)
    BY DEF IInv, Standing
  <2> QED BY <1>1, <1>2, <2>1 DEF StandsAt, Changes
<1>6. Reached(b)'
  BY <1>1, <1>2 DEF Reached, Changes
<1>7. phase = "refresh" /\ quiet' /\ ~lagging => \A i \in Ids : before'[i] = None
  BY <1>2 DEF IInv, Refreshed
<1> QED BY <1>1, <1>2, <1>3, <1>4, <1>5, <1>6, <1>7, Where, StepKeeps DEF Running

LEMMA RecordKeeps ==
  ASSUME IInv, NEW b \in Addresses, pc[b] # "done", op[b] \in {"read", "update"},
         NEW f \in States, NEW n \in 0..2, Record(b, f, n), f.id = state[b].id,
         UNCHANGED <<portal, frame, quiet, lagging, trouble>>,
         phase = "refresh" /\ quiet /\ ~lagging =>
           /\ folders[f.id] # None
           /\ folders[f.id].name = f.name /\ folders[f.id].parent = f.parent,
         phase = "apply" => f.parent = Parent(b) /\ Running(b),
         phase = "apply" /\ quiet /\ ~lagging => AsConfigured(b)
  PROVE  IInv'
<1>1. /\ HandlerTyped' /\ Own(b) /\ pc'[b] = "done" /\ state'[b] = f
      /\ UNCHANGED <<tainted, erred>>
  BY RecordDoes DEF IInv
<1>2. /\ folders' = folders /\ before' = before /\ late' = late
      /\ op' = op /\ config' = config /\ phase' = phase
  BY DEF portal, frame
<1>3. TypeOK'
  BY <1>1, <1>2, Typed DEF IInv, PortalTyped, FrameTyped, frame
<1>4. /\ phase \in {"refresh", "apply"} /\ (op[b] = "read" <=> phase = "refresh")
      /\ state[b] # None /\ f # None
      /\ Changes(b) => config[b] # None
      /\ Changes(b) /\ Running(b) => Rests(b)
  BY Where, Constants
<1>5. Touches(b) /\ Moves(b)
  <2>1. state'[b] # state[b] =>
          phase = "refresh" \/ (Changes(b) /\ Rests(b) /\ f.parent = Parent(b))
    BY <1>4 DEF Changes
  <2> QED BY <1>1, <1>2, <1>4, <2>1, Harmless DEF Moves
<1>6. StandsAt(b)'
  <2>1. StandsAt(b)
    BY DEF IInv, Standing
  <2> QED BY <1>1, <1>2, <1>4, <2>1 DEF StandsAt, Changes
<1>7. ASSUME phase = "apply", quiet', ~lagging
      PROVE  Reached(b)'
  <2>1. op[b] = "update" /\ Rests(b) /\ AsConfigured(b) /\ config[b] # None
    BY <1>4, <1>7 DEF Changes
  <2>2. Rests(b)' /\ Parent(b)' = Parent(b)
    BY <1>5, <2>1, RestsKeeps
  <2>3. AsConfigured(b)'
    BY <1>1, <1>2, <1>4, <2>1, <2>2 DEF AsConfigured
  <2> QED BY <1>1, <1>2, <2>1, <2>2, <2>3 DEF Reached
<1>8. phase = "refresh" /\ quiet' /\ ~lagging =>
        (\A i \in Ids : before'[i] = None) /\ InSync(b)'
  BY <1>1, <1>2 DEF IInv, Refreshed, InSync
<1> QED BY <1>1, <1>2, <1>3, <1>4, <1>5, <1>6, <1>7, <1>8, StepKeeps DEF Running

----------------------------------------------------------------------------
(* The handlers, read by read.                                             *)

\* What a read answers.
LEMMA GetTyped ==
  ASSUME TypeOK, NEW i \in Ids, Get(i) # None
  PROVE  Snapshot(i) \in States /\ AgeOfGet(i) \in 0..2
<1>1. folders[i] \in Folders \/ before[i] \in Revisions
  BY DEF TypeOK, Get
<1>2. before[i] # None => before[i] \in Revisions
  BY DEF TypeOK
<1>3. before[i] = None => folders[i] \in Folders
  BY DEF TypeOK, Get
<1>4. Get(i).name \in Names /\ Get(i).parent \in Ids \cup {Root}
  BY <1>2, <1>3 DEF Get, Revisions, Folders
<1>5. AgeOfGet(i) \in 0..2
  BY <1>2 DEF AgeOfGet, Revisions
<1> QED BY <1>4, <1>5 DEF Snapshot, States

LEMMA ReadKeeps ==
  ASSUME IInv, NEW b \in Addresses, Read(b)
  PROVE  IInv'
<1>1. /\ pc[b] # "done" /\ op[b] = "read" /\ phase = "refresh" /\ state[b] # None
      /\ state[b].id \in Ids /\ pc[b] = "get"
      /\ UNCHANGED <<portal, frame, quiet, lagging, trouble>>
  BY Where DEF Read
<1>2. PICK i \in Ids : i = state[b].id
  BY <1>1
<1>3. CASE Get(i) = None /\ Forget(b)
  BY <1>1, <1>3, ForgetKeeps
<1>4. CASE Get(i) # None /\ Record(b, Snapshot(i), AgeOfGet(i))
  <2>1. Snapshot(i) \in States /\ AgeOfGet(i) \in 0..2
    BY <1>4, GetTyped DEF IInv
  <2>2. Snapshot(i).id = i /\ Snapshot(i).name = Get(i).name /\ Snapshot(i).parent = Get(i).parent
    BY DEF Snapshot
  <2>3. quiet /\ ~lagging => Get(i) = folders[i]
    BY <1>1 DEF IInv, Refreshed, Get
  <2> QED BY <1>1, <1>2, <1>4, <2>1, <2>2, <2>3, RecordKeeps
<1>5. Get(i) # None /\ AgeOfGet(i) > age[b] => ~(quiet /\ ~lagging)
  <2>1. quiet /\ ~lagging => AgeOfGet(i) = 0
    BY <1>1 DEF IInv, Refreshed, AgeOfGet
  <2>2. age[b] \in 0..2
    BY DEF IInv, TypeOK
  <2> QED BY <2>1, <2>2
<1>6. CASE AgeOfGet(i) > age[b] /\ PollAgain(b, "get")
  <2>1. "get" \in Places /\ "get" \in Stages["read"]
    BY DEF Places, Stages
  <2>2. HandlerTyped' /\ Own(b) /\ pc'[b] = "get" /\ UNCHANGED <<files, erred, result>>
    BY <1>6, <2>1, PollAgainDoes DEF IInv
  <2>3. late' \subseteq Requests /\ trouble' \in 0..MaxTrouble
    BY <1>1 DEF IInv, TypeOK, portal
  <2> QED BY <1>1, <2>1, <2>2, <2>3, WithinKeeps DEF Changes, files, portal
<1>7. CASE Get(i) # None /\ AgeOfGet(i) > age[b] /\ Done(b) /\ UNCHANGED <<files, erred>>
  <2>1. /\ pc' = [pc EXCEPT ![b] = "done"] /\ lock' \in {None, lock}
        /\ UNCHANGED <<state, age, tainted, erred, count, streak, async, result>>
        /\ UNCHANGED <<folders, before, late, config, phase, op, hand, quiet, strays, lagging,
                       trouble>>
    BY <1>1, <1>7 DEF Done, Goto, Unlock, poll, files, portal, frame
  <2>2. TypeOK'
    BY <2>1 DEF IInv, TypeOK
  <2>3. pc'[b] = "done" /\ Own(b)
    BY <2>1 DEF IInv, TypeOK, Own
  <2>4. Touches(b) /\ Moves(b)
    BY <1>1, <2>1, <2>3, Harmless DEF Moves, frame
  <2>5. StandsAt(b)'
    <3>1. StandsAt(b)
      BY DEF IInv, Standing
    <3> QED BY <1>1, <2>1, <2>3, <3>1 DEF StandsAt, Changes
  <2>6. ~(quiet' /\ ~lagging)
    BY <1>5, <1>7, <2>1
  <2>7. ~(Changes(b) /\ Running(b))'
    BY <2>3 DEF Running
  <2> QED BY <1>1, <2>2, <2>3, <2>4, <2>5, <2>6, <2>7, StepKeeps
<1> QED BY <1>2, <1>3, <1>4, <1>6, <1>7 DEF Read

\* What is known of an update on its way to its write.
LEMMA OnTheWay ==
  ASSUME IInv, NEW b \in Addresses, op[b] = "update", pc[b] # "done"
  PROVE  /\ pc[b] \in {"collide", "parent", "write"} /\ b \notin async
              /\ state[b].name # config[b].name => ChildFolders(state[b].id) \subseteq strays
         /\ quiet /\ ~lagging /\ pc[b] # "verify" => folders[state[b].id] # None
         /\ quiet /\ ~lagging /\ state[b].name # config[b].name
              /\ pc[b] \in {"children", "collide", "parent", "write", "task"} =>
              ~folders[state[b].id].files
<1>1. phase = "apply"
  BY Where
<1> QED BY <1>1 DEF IInv, Leaves, Achieved, Reached, InSync

LEMMA CollideKeeps ==
  ASSUME IInv, NEW b \in Addresses, Collide(b)
  PROVE  IInv'
<1>1. /\ pc[b] = "collide" /\ UNCHANGED <<portal, frame, quiet, lagging, trouble>>
      /\ Changes(b) => Rests(b) /\ Grounded(b)
      /\ pc[b] \in Stages[op[b]] /\ op[b] \in {"read", "create", "update", "delete"}
  BY Where DEF Collide, Running
<1>2. Fail(b) \/ (op[b] = "update" /\ Continue(b, "parent")) \/ Continue(b, "write")
  BY DEF Collide
<1>3. late' \subseteq Requests /\ trouble' \in 0..MaxTrouble
  BY <1>1 DEF IInv, TypeOK, portal
<1>4. CASE Fail(b)
  BY <1>1, <1>3, <1>4, FailKeeps DEF portal
<1>5. ASSUME NEW l \in {"parent", "write"}, Continue(b, l), l = "parent" => op[b] = "update"
      PROVE  IInv'
  <2>1. l \in Places /\ l \in Stages[op[b]] \ {"confirm", "ready"}
    BY <1>1, <1>5 DEF Places, Stages
  <2>2. HandlerTyped' /\ Own(b) /\ pc'[b] = l /\ UNCHANGED <<files, erred, result, async>>
    BY <1>5, <2>1, ContinueDoes DEF IInv
  <2>3. op[b] = "update" /\ state[b].name # config[b].name =>
          /\ b \notin async => ChildFolders(state[b].id) \subseteq strays
          /\ quiet /\ ~lagging => ~folders[state[b].id].files
    BY <1>1, OnTheWay
  <2> QED BY <1>1, <1>3, <2>1, <2>2, <2>3, WithinKeeps DEF files, portal
<1> QED BY <1>2, <1>4, <1>5

LEMMA NoFilesKeeps ==
  ASSUME IInv, NEW b \in Addresses, NoFiles(b)
  PROVE  IInv'
<1>1. /\ pc[b] = "files" /\ op[b] = "update"
      /\ UNCHANGED <<portal, frame, quiet, lagging, trouble>>
      /\ Rests(b) /\ Grounded(b) /\ state[b].id \in Ids
  BY Where DEF NoFiles, Running, Changes
<1>2. late' \subseteq Requests /\ trouble' \in 0..MaxTrouble
  BY <1>1 DEF IInv, TypeOK, portal
<1>3. CASE Fail(b)
  BY <1>1, <1>2, <1>3, FailKeeps DEF portal
<1>4. CASE ~(Exists(state[b].id) /\ folders[state[b].id].files) /\ Continue(b, "children")
  <2>1. "children" \in Places /\ "children" \in Stages[op[b]] \ {"confirm", "ready"}
    BY <1>1 DEF Places, Stages
  <2>2. HandlerTyped' /\ Own(b) /\ pc'[b] = "children" /\ UNCHANGED <<files, erred, result, async>>
    BY <1>4, <2>1, ContinueDoes DEF IInv
  <2>3. quiet /\ ~lagging => ~folders[state[b].id].files
    <3>1. quiet /\ ~lagging => folders[state[b].id] # None
      BY <1>1, OnTheWay
    <3> QED BY <1>1, <1>4, <3>1 DEF Exists
  <2> QED BY <1>1, <1>2, <2>1, <2>2, <2>3, WithinKeeps DEF files, portal
<1> QED BY <1>3, <1>4 DEF NoFiles

LEMMA HasChildrenKeeps ==
  ASSUME IInv, NEW b \in Addresses, HasChildren(b)
  PROVE  IInv'
<1>1. /\ pc[b] = "children" /\ op[b] = "update"
      /\ UNCHANGED <<portal, frame, files, count, streak, result, lock, erred, quiet, lagging,
                     trouble>>
      /\ Rests(b) /\ Grounded(b)
  BY Where DEF HasChildren, Running, Changes
<1>2. late' \subseteq Requests /\ trouble' \in 0..MaxTrouble
  BY <1>1 DEF IInv, TypeOK, portal
<1>3. /\ pc' = [pc EXCEPT ![b] = "collide"]
      /\ async' = IF ChildFolders(state[b].id) = {} THEN async ELSE async \cup {b}
  BY DEF HasChildren, Goto
<1>4. HandlerTyped'
  BY <1>1, <1>3, Typed DEF IInv, HandlerTyped, Places, files
<1>5. Own(b) /\ pc'[b] = "collide"
  BY <1>1, <1>3 DEF IInv, TypeOK, Own, files
<1>6. b \notin async' => ChildFolders(state[b].id) = {}
  BY <1>3
<1>7. quiet /\ ~lagging /\ state[b].name # config[b].name => ~folders[state[b].id].files
  BY <1>1, OnTheWay
<1>8. "collide" \in Stages["update"] \ {"confirm", "ready"}
  BY DEF Stages
<1> QED BY <1>1, <1>2, <1>4, <1>5, <1>6, <1>7, <1>8, WithinKeeps DEF files, portal

LEMMA AwaitParentKeeps ==
  ASSUME IInv, NEW b \in Addresses, AwaitParent(b)
  PROVE  IInv'
<1>1. /\ pc[b] = "parent" /\ op[b] = "update"
      /\ UNCHANGED <<portal, frame, quiet, lagging, trouble>>
      /\ Rests(b) /\ Grounded(b)
  BY Where DEF AwaitParent, Running, Changes
<1>2. late' \subseteq Requests /\ trouble' \in 0..MaxTrouble
  BY <1>1 DEF IInv, TypeOK, portal
<1>3. Fail(b) \/ Continue(b, "write") \/ PollAgain(b, "parent")
  BY DEF AwaitParent
<1>4. CASE Fail(b)
  BY <1>1, <1>2, <1>4, FailKeeps DEF portal
<1>5. ASSUME NEW l \in {"parent", "write"}, Continue(b, l) \/ PollAgain(b, l)
      PROVE  IInv'
  <2>1. l \in Places /\ l \in Stages[op[b]] \ {"confirm", "ready"}
    BY <1>1, <1>5 DEF Places, Stages
  <2>2. HandlerTyped' /\ Own(b) /\ pc'[b] = l /\ UNCHANGED <<files, erred, result, async>>
    BY <1>5, <2>1, ContinueDoes, PollAgainDoes DEF IInv
  <2>3. state[b].name # config[b].name =>
          /\ b \notin async => ChildFolders(state[b].id) \subseteq strays
          /\ quiet /\ ~lagging => ~folders[state[b].id].files
    BY <1>1, OnTheWay
  <2> QED BY <1>1, <1>2, <2>1, <2>2, <2>3, WithinKeeps DEF files, portal
<1> QED BY <1>3, <1>4, <1>5

LEMMA StartKeeps ==
  ASSUME IInv, NEW b \in Addresses, Start(b)
  PROVE  IInv'
<1>1. /\ pc[b] = "ready" /\ Ready(b) /\ ~Doomed(b)
      /\ UNCHANGED <<portal, frame, files, poll, erred, quiet, lagging, trouble>>
      /\ op[b] \in {"create", "update", "delete"} /\ phase = "apply"
      /\ Changes(b) => config[b] # None
  BY Where DEF Start, Stages
<1>2. late' \subseteq Requests /\ trouble' \in 0..MaxTrouble
  BY <1>1 DEF IInv, TypeOK, portal
<1>3. PICK l : /\ pc' = [pc EXCEPT ![b] = l]
               /\ lock' \in Addresses \cup {None}
               /\ \/ op[b] = "create" /\ l = "collide"
                  \/ op[b] = "delete" /\ l = "empty"
                  \/ op[b] = "update" /\ l = "collide" /\ state[b].name = config[b].name
                  \/ op[b] = "update" /\ l = "files"
  BY <1>1 DEF Start, Goto, IInv, TypeOK
<1>4. HandlerTyped'
  BY <1>1, <1>3, Typed DEF IInv, HandlerTyped, Places, files, poll
<1>5. Own(b) /\ pc'[b] = l
  BY <1>1, <1>3 DEF IInv, TypeOK, Own, files, poll
<1>6. l \in Stages[op[b]] \ {"confirm", "ready"}
  BY <1>3 DEF Stages
<1>7. ASSUME Changes(b)
      PROVE  Rests(b) /\ Grounded(b)
  <2> SUFFICES ASSUME NEW u \in Addresses, u = config[b].under
               PROVE  state[u] # None /\ u \notin tainted /\ pc[u] = "done"
    BY DEF Rests, Grounded
  <2>1. op[b] # "delete"
    BY <1>7 DEF Changes
  <2>2. u \in Before(b)
    BY <2>1 DEF Before
  <2>3. pc[u] = "done" /\ u \notin erred /\ state[u] # None
    BY <1>1, <2>1, <2>2 DEF Ready, Doomed
  <2> QED BY <1>1, <2>3 DEF IInv, Standing, StandsAt
<1> QED BY <1>1, <1>2, <1>3, <1>4, <1>5, <1>6, <1>7, WithinKeeps DEF files, portal, poll

LEMMA SkipKeeps ==
  ASSUME IInv, NEW b \in Addresses, Skip(b)
  PROVE  IInv'
<1>1. /\ pc[b] = "ready" /\ pc' = [pc EXCEPT ![b] = "done"] /\ erred' = erred \cup {b}
      /\ UNCHANGED <<portal, frame, files, poll, lock, quiet, lagging, trouble>>
  BY DEF Skip, Goto
<1>2. HandlerTyped'
  BY <1>1, Typed DEF IInv, HandlerTyped, Places, files, poll
<1>3. TypeOK'
  BY <1>1, <1>2, Typed DEF IInv, PortalTyped, FrameTyped, portal, frame
<1>4. Own(b) /\ pc'[b] = "done" /\ b \in erred'
  BY <1>1 DEF IInv, TypeOK, Own, files, poll
<1> QED BY <1>1, <1>3, <1>4, Harmless, ErringKeeps DEF files, portal, frame

LEMMA NoChildFoldersKeeps ==
  ASSUME IInv, NEW b \in Addresses, NoChildFolders(b)
  PROVE  IInv'
<1>1. /\ pc[b] = "empty" /\ op[b] = "delete"
      /\ UNCHANGED <<portal, frame, quiet, lagging, trouble>>
  BY DEF NoChildFolders
<1>2. late' \subseteq Requests /\ trouble' \in 0..MaxTrouble
  BY <1>1 DEF IInv, TypeOK, portal
<1>3. CASE Fail(b)
  BY <1>1, <1>2, <1>3, FailKeeps DEF portal
<1>4. CASE PollAgain(b, "empty")
  <2>1. "empty" \in Places /\ "empty" \in Stages["delete"] \ {"confirm", "ready"}
    BY DEF Places, Stages
  <2>2. HandlerTyped' /\ Own(b) /\ pc'[b] = "empty" /\ UNCHANGED <<files, erred, result, async>>
    BY <1>4, <2>1, PollAgainDoes DEF IInv
  <2> QED BY <1>1, <1>2, <2>1, <2>2, WithinKeeps DEF files, portal, Changes
<1>5. CASE Goto(b, "nofiles") /\ UNCHANGED <<files, poll, lock, erred>>
  <2>1. "nofiles" \in Places /\ "nofiles" \in Stages["delete"] \ {"confirm", "ready"}
    BY DEF Places, Stages
  <2>2. pc' = [pc EXCEPT ![b] = "nofiles"]
    BY <1>5 DEF Goto
  <2>3. HandlerTyped'
    BY <1>5, <2>1, <2>2, Typed DEF IInv, HandlerTyped, files, poll
  <2>4. Own(b) /\ pc'[b] = "nofiles"
    BY <1>5, <2>2 DEF IInv, TypeOK, Own, files, poll
  <2> QED BY <1>1, <1>2, <1>5, <2>1, <2>3, <2>4, WithinKeeps DEF files, poll, portal, Changes
<1> QED BY <1>3, <1>4, <1>5 DEF NoChildFolders

LEMMA NoChildFilesKeeps ==
  ASSUME IInv, NEW b \in Addresses, NoChildFiles(b)
  PROVE  IInv'
<1>1. /\ pc[b] = "nofiles" /\ op[b] = "delete"
      /\ UNCHANGED <<portal, frame, quiet, lagging, trouble>>
  BY DEF NoChildFiles
<1>2. late' \subseteq Requests /\ trouble' \in 0..MaxTrouble
  BY <1>1 DEF IInv, TypeOK, portal
<1>3. CASE Fail(b)
  BY <1>1, <1>2, <1>3, FailKeeps DEF portal
<1>4. ASSUME NEW l \in {"empty", "write"}, PollAgain(b, l) \/ Continue(b, l)
      PROVE  IInv'
  <2>1. l \in Places /\ l \in Stages["delete"] \ {"confirm", "ready"}
    BY DEF Places, Stages
  <2>2. HandlerTyped' /\ Own(b) /\ pc'[b] = l /\ UNCHANGED <<files, erred, result, async>>
    BY <1>4, <2>1, PollAgainDoes, ContinueDoes DEF IInv
  <2> QED BY <1>1, <1>2, <2>1, <2>2, WithinKeeps DEF files, portal, Changes
<1> QED BY <1>3, <1>4 DEF NoChildFiles

LEMMA AwaitAbsenceKeeps ==
  ASSUME IInv, NEW b \in Addresses, AwaitAbsence(b)
  PROVE  IInv'
<1>1. /\ pc[b] = "absent" /\ UNCHANGED <<portal, frame, quiet, lagging, trouble>>
      /\ op[b] = "delete"
  BY Where DEF AwaitAbsence, Stages
<1>2. late' \subseteq Requests /\ trouble' \in 0..MaxTrouble
  BY <1>1 DEF IInv, TypeOK, portal
<1>3. CASE Forget(b)
  BY <1>1, <1>3, ForgetKeeps
<1>4. CASE Fail(b)
  BY <1>1, <1>2, <1>4, FailKeeps DEF portal
<1> QED BY <1>3, <1>4 DEF AwaitAbsence

\* The place that a create or an update asks for is known.
LEMMA ParentKnown ==
  ASSUME IInv, NEW b \in Addresses, config[b] # None, Rests(b)
  PROVE  Parent(b) \in Ids \cup {Root}
BY Constants DEF IInv, TypeOK, Rests, Parent

LEMMA WantedTyped ==
  ASSUME IInv, NEW b \in Addresses, config[b] # None, Rests(b), NEW i \in Ids
  PROVE  /\ Wanted(b, i) \in States /\ Wanted(b, i) # None /\ Wanted(b, i).id = i
         /\ Wanted(b, i).parent = Parent(b) /\ Wanted(b, i).name = config[b].name
<1>1. Parent(b) \in Ids \cup {Root} /\ config[b].name \in Names
  BY ParentKnown, Constants DEF IInv, TypeOK
<1>2. Wanted(b, i) \in States
  BY <1>1 DEF Wanted, States
<1> QED BY <1>2, Constants DEF Wanted

LEMMA RequestTyped ==
  ASSUME IInv, NEW b \in Addresses, pc[b] \in {"write", "task"}
  PROVE  /\ Request(b) \in Requests
         /\ Request(b).kind \in {"create", "rename", "move", "delete"}
         /\ Request(b).kind = "create" <=> op[b] = "create"
         /\ Request(b).kind = "delete" <=> op[b] = "delete"
         /\ op[b] # "create" => Request(b).id = state[b].id
         /\ op[b] # "delete" => /\ Request(b).name = config[b].name
                                /\ Request(b).parent = Parent(b)
         /\ op[b] = "update" => (Request(b).kind = "move" <=> IsTask(b))
<1>1. op[b] \in {"create", "update", "delete"} /\ (Changes(b) => config[b] # None /\ Rests(b))
  BY Where DEF Running, Stages
<1>2. op[b] # "create" => /\ state[b].id \in Ids /\ state[b].name \in Names
                          /\ state[b].parent \in Ids \cup {Root}
  BY Where, Constants
<1>3. op[b] # "delete" => config[b].name \in Names /\ Parent(b) \in Ids \cup {Root}
  BY <1>1, ParentKnown, Constants DEF Changes, IInv, TypeOK
<1>4. PICK k \in {"create", "rename", "move", "delete"} :
        /\ k = CASE op[b] = "create" -> "create"
                 [] op[b] = "delete" -> "delete"
                 [] OTHER -> IF IsTask(b) THEN "move" ELSE "rename"
        /\ k = "create" <=> op[b] = "create"
        /\ k = "delete" <=> op[b] = "delete"
        /\ op[b] = "update" => (k = "move" <=> IsTask(b))
  BY <1>1
<1>5. PICK i \in Ids \cup {Root} : /\ i = IF op[b] = "create" THEN Root ELSE state[b].id
                                   /\ op[b] = "create" <=> i = Root
  BY <1>2, Constants
<1>6. PICK n \in Names : n = IF op[b] = "delete" THEN state[b].name ELSE config[b].name
  BY <1>1, <1>2, <1>3
<1>7. PICK p \in Ids \cup {Root} : p = IF op[b] = "delete" THEN state[b].parent ELSE Parent(b)
  BY <1>1, <1>2, <1>3
<1>8. Request(b) = [kind |-> k, id |-> i, name |-> n, parent |-> p]
  BY <1>4, <1>5, <1>6, <1>7 DEF Request
<1> QED BY <1>4, <1>5, <1>6, <1>7, <1>8 DEF Requests

LEMMA StartTaskKeeps ==
  ASSUME IInv, NEW b \in Addresses, StartTask(b)
  PROVE  IInv'
<1>1. /\ pc[b] = "write" /\ op[b] = "update"
      /\ UNCHANGED <<portal, frame, quiet, lagging, trouble>>
      /\ Rests(b) /\ Grounded(b)
  BY Where DEF StartTask, Running, Changes
<1>2. late' \subseteq Requests /\ trouble' \in 0..MaxTrouble
  BY <1>1 DEF IInv, TypeOK, portal
<1>3. CASE Fail(b)
  BY <1>1, <1>2, <1>3, FailKeeps DEF portal
<1>4. CASE Continue(b, "task")
  <2>1. "task" \in Places /\ "task" \in Stages["update"] \ {"confirm", "ready"}
    BY DEF Places, Stages
  <2>2. HandlerTyped' /\ Own(b) /\ pc'[b] = "task" /\ UNCHANGED <<files, erred, result, async>>
    BY <1>4, <2>1, ContinueDoes DEF IInv
  <2>3. quiet /\ ~lagging /\ state[b].name # config[b].name => ~folders[state[b].id].files
    BY <1>1, OnTheWay
  <2> QED BY <1>1, <1>2, <2>1, <2>2, <2>3, WithinKeeps DEF files, portal
<1> QED BY <1>3, <1>4 DEF StartTask

LEMMA TaskFailsKeeps ==
  ASSUME IInv, NEW b \in Addresses, TaskFails(b)
  PROVE  IInv'
<1>1. /\ pc[b] = "task" /\ Fail(b)
      /\ UNCHANGED <<folders, before, frame, quiet, lagging>>
      /\ late' \in {late} \cup (IF trouble < MaxTrouble THEN {late \cup {Request(b)}} ELSE {})
      /\ trouble' = IF late' = late THEN trouble ELSE trouble + 1
  BY DEF TaskFails
<1>2. Request(b) \in Requests
  BY <1>1, RequestTyped
<1>3. late' \subseteq Requests
  BY <1>1, <1>2 DEF IInv, TypeOK
<1>4. late' # late => trouble < MaxTrouble
  BY <1>1
<1>5. trouble' \in 0..MaxTrouble
  BY <1>1, <1>4, FolderAssumption DEF IInv, TypeOK
<1> QED BY <1>1, <1>3, <1>5, FailKeeps

LEMMA VerifyKeeps ==
  ASSUME IInv, NEW b \in Addresses, Verify(b)
  PROVE  IInv'
<1>1. /\ pc[b] = "verify" /\ op[b] = "update" /\ phase = "apply" /\ Running(b)
      /\ UNCHANGED <<portal, frame, quiet, lagging, trouble>>
      /\ Rests(b) /\ Grounded(b) /\ config[b] # None /\ state[b] # None /\ state[b].id \in Ids
  BY Where DEF Verify, Running, Changes
<1>2. late' \subseteq Requests /\ trouble' \in 0..MaxTrouble
  BY <1>1 DEF IInv, TypeOK, portal
<1>3. PICK i \in Ids : i = state[b].id
  BY <1>1
<1>4. Wanted(b, i) \in States /\ Wanted(b, i).id = i /\ Wanted(b, i).parent = Parent(b)
      /\ Wanted(b, i).name = config[b].name
  BY <1>1, WantedTyped
<1>5. quiet /\ ~lagging => AsConfigured(b) \/ (before[i] = None /\ result[b] = -1)
  BY <1>1, <1>3 DEF IInv, Achieved, Reached
<1>6. ASSUME NEW n \in 0..2, Record(b, Wanted(b, i), n), quiet /\ ~lagging => AsConfigured(b)
      PROVE  IInv'
  BY <1>1, <1>3, <1>4, <1>6, RecordKeeps
<1>7. CASE Fail(b)
  BY <1>1, <1>2, <1>7, FailKeeps DEF portal
<1>8. CASE Get(i) # None /\ Snapshot(i) = Wanted(b, i) /\ Record(b, Wanted(b, i), AgeOfGet(i))
  <2>1. AgeOfGet(i) \in 0..2
    BY <1>8, GetTyped DEF IInv
  <2>2. Snapshot(i).name = Get(i).name /\ Snapshot(i).parent = Get(i).parent
    BY DEF Snapshot
  <2>3. before[i] = None => AsConfigured(b)
    BY <1>1, <1>3, <1>4, <1>8, <2>2 DEF Get, AsConfigured
  <2> QED BY <1>5, <1>6, <1>8, <2>1, <2>3
<1>9. CASE result[b] # -1 /\ Record(b, Wanted(b, i), result[b])
  <2>1. result[b] \in 0..2
    BY <1>9 DEF IInv, TypeOK
  <2> QED BY <1>5, <1>6, <1>9, <2>1
<1>10. CASE /\ ~LastPoll(b) /\ count' = [count EXCEPT ![b] = @ + 1]
            /\ \/ streak[b] + 1 # Matches /\ streak' = [streak EXCEPT ![b] = @ + 1]
               \/ streak' = [streak EXCEPT ![b] = 0]
            /\ UNCHANGED <<pc, files, async, result, lock, erred>>
  <2>0. /\ count[b] \in 0..Attempts - 1 /\ streak[b] \in 0..Matches - 1
        /\ Attempts \in Nat \ {0} /\ Matches \in Nat \ {0}
    <3>1. count \in [Addresses -> 0..Attempts - 1] /\ streak \in [Addresses -> 0..Matches - 1]
      BY DEF IInv, TypeOK
    <3>2. Attempts \in Nat \ {0} /\ Matches \in Nat \ {0}
      BY FolderAssumption
    <3> QED BY <3>1, <3>2
  <2>1. count[b] + 1 \in 0..Attempts - 1
    BY <1>10, <2>0 DEF LastPoll
  <2>2. 0 \in 0..Matches - 1 /\ (streak[b] + 1 # Matches => streak[b] + 1 \in 0..Matches - 1)
    BY <2>0
  <2>3. HandlerTyped'
    BY <1>10, <2>1, <2>2, Typed DEF IInv, HandlerTyped, files
  <2>4. Own(b)
    BY <1>10 DEF Own, files
  <2>5. "verify" \in Stages["update"]
    BY DEF Stages
  <2> QED BY <1>1, <1>2, <1>10, <2>3, <2>4, <2>5, WithinKeeps DEF files, portal
<1> QED BY <1>3, <1>7, <1>8, <1>9, <1>10 DEF Verify

LEMMA ReplaceKeeps ==
  ASSUME IInv, NEW b \in Addresses, Replace(b)
  PROVE  IInv'
<1>1. /\ phase = "apply" /\ pc[b] = "done" /\ state[b] = None /\ config[b] # None
      /\ op' = [op EXCEPT ![b] = "create"] /\ pc' = [pc EXCEPT ![b] = "ready"]
      /\ UNCHANGED <<portal, files, config, phase, hand, poll, lock, erred, quiet, strays,
                     lagging, trouble>>
  BY DEF Replace, Replacing, Goto
<1>2. op'[b] = "create" /\ pc'[b] = "ready" /\ state'[b] = None
  BY <1>1 DEF IInv, TypeOK, files
<1>3. TypeOK'
  <2>1. HandlerTyped'
    BY <1>1, Typed DEF IInv, HandlerTyped, Places, files, poll
  <2>2. PortalTyped' /\ FrameTyped'
    BY <1>1, Typed DEF IInv, PortalTyped, FrameTyped, portal
  <2> QED BY <2>1, <2>2, Typed
<1>4. Touches(b)
  <2>1. \A a \in Addresses \ {b} : op'[a] = op[a] /\ pc'[a] = pc[a]
    BY <1>1 DEF IInv, TypeOK
  <2> QED BY <1>1, <2>1 DEF Touches, Placed, files, poll, portal
<1>5. Moves(b)
  BY <1>1, <1>2 DEF Moves, files
<1>6. StandsAt(b)'
  <2>1. StandsAt(b)
    BY DEF IInv, Standing
  <2> QED BY <1>1, <1>2, <2>1 DEF StandsAt, Stages, Changes, files
<1>7. Reached(b)' /\ ~Running(b)'
  BY <1>2 DEF Reached, Changes, Running
<1> QED BY <1>1, <1>2, <1>3, <1>4, <1>5, <1>6, <1>7, StepKeeps

LEMMA DisturbTyped ==
  ASSUME TypeOK, Disturb
  PROVE  trouble' \in 0..MaxTrouble
<1>1. trouble \in 0..MaxTrouble /\ MaxTrouble \in Nat
  BY FolderAssumption DEF TypeOK
<1> QED BY <1>1 DEF Disturb

LEMMA ConfirmKeeps ==
  ASSUME IInv, NEW b \in Addresses, Confirm(b)
  PROVE  IInv'
<1>1. /\ pc[b] = "confirm" /\ op[b] = "create" /\ phase = "apply" /\ state[b] = None
      /\ UNCHANGED <<portal, frame, quiet, lagging>>
      /\ Rests(b) /\ Grounded(b) /\ config[b] # None
  BY Where DEF Confirm, Running, Changes
<1>2. PICK i \in Ids : i = hand[b]
  BY <1>1 DEF IInv, Standing, StandsAt
<1>3. PICK f \in States : /\ f = Wanted(b, i) /\ f.id = i /\ f # None
                          /\ f.parent = Parent(b) /\ f.name = config[b].name
  BY <1>1, WantedTyped
<1>4. PICK n : /\ n = 2 \/ (Get(i) # None /\ n = AgeOfGet(i))
               /\ age' = [age EXCEPT ![b] = n]
  BY <1>2 DEF Confirm
<1>5. n \in 0..2
  BY <1>4, GetTyped DEF IInv
<1>6. /\ state' = [state EXCEPT ![b] = f]
      /\ pc' = [pc EXCEPT ![b] = "done"] /\ lock' \in {None, lock}
      /\ UNCHANGED <<count, streak, async, result>>
      /\ \/ /\ Get(i) # None /\ Snapshot(i) = f /\ UNCHANGED <<tainted, erred>>
         \/ tainted' = tainted \cup {b} /\ erred' = erred \cup {b}
  BY <1>2, <1>3 DEF Confirm, Done, Goto, Unlock, poll
<1>7. HandlerTyped'
  BY <1>4, <1>5, <1>6, Typed DEF IInv, HandlerTyped, Places
<1>8. TypeOK'
  <2>1. trouble' \in 0..MaxTrouble
    BY DisturbTyped DEF Confirm, IInv, TypeOK
  <2> QED BY <1>1, <1>7, <2>1, Typed DEF IInv, PortalTyped, FrameTyped, portal, frame
<1>9. Own(b) /\ pc'[b] = "done" /\ state'[b] = f
  BY <1>6 DEF IInv, TypeOK, Own
<1>10. /\ folders' = folders /\ before' = before /\ late' = late /\ hand' = hand
       /\ op' = op /\ config' = config /\ phase' = phase /\ quiet' = quiet /\ lagging' = lagging
       /\ UNCHANGED frame
  BY <1>1 DEF portal, frame
<1>11. Touches(b)
  BY <1>9, <1>10, Harmless
<1>12. Moves(b)
  BY <1>1, <1>2, <1>3, <1>6, <1>9, <1>10 DEF Moves, Changes
<1>13. b \notin tainted /\ (b \in tainted' => b \in erred')
  BY <1>1, <1>6 DEF IInv, Standing, StandsAt
<1>14. StandsAt(b)'
  BY <1>1, <1>3, <1>9, <1>10, <1>13 DEF StandsAt, Changes
<1>15. ASSUME quiet', ~lagging
       PROVE  Reached(b)'
  <2> SUFFICES ASSUME b \notin erred'
               PROVE  AsConfigured(b)' /\ Rests(b)'
    BY <1>1, <1>9, <1>10 DEF Reached
  <2>1. Rests(b)' /\ Parent(b)' = Parent(b)
    BY <1>1, <1>11, <1>12, RestsKeeps
  <2>2. Get(i) # None /\ Snapshot(i) = f /\ before[i] = None
    BY <1>1, <1>2, <1>6, <1>10, <1>15 DEF IInv, Achieved, Reached
  <2>3. folders[i] # None /\ folders[i].name = f.name /\ folders[i].parent = f.parent
    BY <2>2 DEF Get, Snapshot
  <2> QED BY <1>1, <1>3, <1>9, <1>10, <2>1, <2>3 DEF AsConfigured
<1> QED BY <1>1, <1>8, <1>9, <1>10, <1>11, <1>12, <1>14, <1>15, StepKeeps DEF Running

----------------------------------------------------------------------------
(* The handlers, write by write.                                           *)

\* What a request does to the folder it names, and to that one only.
LEMMA EffectOn ==
  ASSUME TypeOK, NEW r \in Requests, r.kind # "create", r.id \in Ids, Accepts(r),
         folders' = Effect(r, r.id)
  PROVE  /\ folders[r.id] # None
         /\ \A j \in Ids \ {r.id} : folders'[j] = folders[j]
         /\ r.kind = "delete" => folders'[r.id] = None
         /\ r.kind # "delete" =>
              /\ folders'[r.id] # None
              /\ folders'[r.id].name = IF folders[r.id].files THEN folders[r.id].name ELSE r.name
              /\ folders'[r.id].parent = IF r.kind = "move" THEN r.parent ELSE folders[r.id].parent
         /\ folders' \in [Ids -> Folders \cup {None}]
<1>1. r.kind \in {"create", "rename", "move", "delete"} /\ r.name \in Names
      /\ r.parent \in Ids \cup {Root}
  BY DEF Requests
<1>2. folders \in [Ids -> Folders \cup {None}] /\ None \notin Folders
  BY FolderAssumption DEF TypeOK
<1>3. folders[r.id] # None
  BY <1>1 DEF Accepts
<1>4. folders[r.id] \in Folders
  BY <1>2, <1>3
<1>5. PICK f : f = folders[r.id]
  OBVIOUS
<1>6. f.name \in Names /\ f.parent \in Ids \cup {Root} /\ f.files \in BOOLEAN
      /\ f = [name |-> f.name, parent |-> f.parent, files |-> f.files]
  BY <1>4, <1>5 DEF Folders
<1>7. CASE r.kind = "delete"
  <2>1. folders' = [folders EXCEPT ![r.id] = None]
    BY <1>7 DEF Effect
  <2> QED BY <1>2, <1>3, <1>7, <2>1
<1>8. CASE r.kind # "delete"
  <2>1. PICK g : g = [name |-> IF f.files THEN f.name ELSE r.name,
                      parent |-> IF r.kind = "move" THEN r.parent ELSE f.parent,
                      files |-> f.files]
    OBVIOUS
  <2>2. g \in Folders /\ g # None
    BY <1>1, <1>2, <1>6, <2>1 DEF Folders
  <2>3. folders' = [folders EXCEPT ![r.id].name = IF folders[r.id].files THEN @ ELSE r.name,
                                   ![r.id].parent = IF r.kind = "move" THEN r.parent ELSE @]
    BY <1>1, <1>8 DEF Effect
  <2>4. \A j \in Ids \ {r.id} : folders'[j] = folders[j]
    BY <1>2, <2>3
  <2>5. folders'[r.id] = g
    BY <1>2, <1>4, <1>5, <1>6, <2>1, <2>3
  <2>6. folders' \in [Ids -> Folders \cup {None}]
    <3>1. folders' = [folders EXCEPT ![r.id] = g]
      BY <1>2, <2>3, <2>5
    <3> QED BY <1>2, <2>2, <3>1
  <2> QED BY <1>3, <1>5, <1>8, <2>1, <2>2, <2>4, <2>5, <2>6
<1> QED BY <1>7, <1>8

\* What a new revision makes of what reads return and of what is known.
LEMMA RevisedDoes ==
  ASSUME TypeOK, NEW i \in Ids, Revised(i), folders[i] # None,
         \A j \in Ids \ {i} : folders'[j] = folders[j]
  PROVE  /\ age' \in [Addresses -> 0..2] /\ result' \in [Addresses -> -1..2]
         /\ before' \in [Ids -> Revisions \cup {None}]
         /\ \A j \in Ids \ {i} : before'[j] = before[j]
         /\ before[i] = None => before'[i] = None
         /\ \A j \in Ids : folders'[j] = None => before'[j] = None
         /\ \A a \in Addresses : result'[a] = result[a] \/ (Knows(a, i) /\ result[a] # -1)
<1>1. /\ before \in [Ids -> Revisions \cup {None}] /\ None \notin Revisions
      /\ age \in [Addresses -> 0..2] /\ result \in [Addresses -> -1..2]
      /\ \A j \in Ids : folders[j] = None => before[j] = None
  BY FolderAssumption DEF TypeOK
<1>2. \A n \in 0..2 : Older(n) \in 0..2
  BY DEF Older
<1>3. \A n \in -1..2 : Older(n) \in -1..2 /\ (n = -1 => Older(n) = n)
  BY DEF Older
<1>4. age' = [a \in Addresses |-> IF Knows(a, i) THEN Older(age[a]) ELSE age[a]]
      /\ result' = [a \in Addresses |-> IF Knows(a, i) THEN Older(result[a]) ELSE result[a]]
  BY DEF Revised, Aged
<1>5. age' \in [Addresses -> 0..2]
  BY <1>1, <1>2, <1>4
<1>6. result' \in [Addresses -> -1..2]
      /\ \A a \in Addresses : result'[a] = result[a] \/ (Knows(a, i) /\ result[a] # -1)
  BY <1>1, <1>3, <1>4
<1>7. PICK g : g = IF before[i] = None \/ folders'[i] = None THEN None
                   ELSE [before[i] EXCEPT !.back = Older(before[i].back)]
  OBVIOUS
<1>8. before' = [before EXCEPT ![i] = g]
  <2>1. before' = [before EXCEPT ![i] = IF before[i] = None \/ folders'[i] = None THEN None
                                        ELSE [before[i] EXCEPT !.back = Older(before[i].back)]]
    BY DEF Revised
  <2> QED BY <1>7, <2>1
<1>9. g \in Revisions \cup {None}
  <2> SUFFICES ASSUME before[i] # None
               PROVE  [before[i] EXCEPT !.back = Older(before[i].back)] \in Revisions
    BY <1>7
  <2>1. before[i] \in Revisions
    BY <1>1
  <2>2. before[i].back \in 1..2 /\ Older(before[i].back) \in 1..2
    BY <2>1 DEF Revisions, Older
  <2> QED BY <2>1, <2>2 DEF Revisions
<1> QED BY <1>1, <1>5, <1>6, <1>7, <1>8, <1>9

\* The write of an update or a delete, applied to the folder of its address.
LEMMA ApplyDoes ==
  ASSUME IInv, NEW b \in Addresses, pc[b] \in {"write", "task"},
         op[b] \in {"update", "delete"}, Apply(b), NEW i \in Ids, i = state[b].id
  PROVE  /\ folders[i] # None
         /\ \A j \in Ids \ {i} : folders'[j] = folders[j]
         /\ folders' \in [Ids -> Folders \cup {None}]
         /\ op[b] = "delete" => folders'[i] = None
         /\ op[b] = "update" =>
              /\ folders'[i] # None
              /\ folders'[i].name = IF folders[i].files THEN folders[i].name ELSE config[b].name
              /\ folders'[i].parent = IF IsTask(b) THEN Parent(b) ELSE folders[i].parent
<1>1. PICK r \in Requests : r = Request(b)
  BY RequestTyped
<1>2. /\ r.id = i /\ r.kind # "create" /\ (r.kind = "delete" <=> op[b] = "delete")
      /\ op[b] = "update" => r.name = config[b].name /\ r.parent = Parent(b)
                             /\ (r.kind = "move" <=> IsTask(b))
  BY <1>1, RequestTyped
<1>3. Accepts(r) /\ folders' = Effect(r, r.id)
  BY <1>1, <1>2 DEF Apply
<1> QED BY <1>2, <1>3, EffectOn DEF IInv

\* A step of a handler that has written, as the others see it.
LEMMA WriteTouches ==
  ASSUME IInv, NEW b \in Addresses, pc[b] \in {"write", "task"},
         op[b] \in {"update", "delete"}, Apply(b), NEW i \in Ids, i = state[b].id,
         \A j \in Ids \ {i} : before'[j] = before[j],
         \A a \in Addresses \ {b} : /\ pc'[a] = pc[a]
                                    /\ a \in erred' <=> a \in erred
                                    /\ result'[a] = result[a] \/ Knows(a, i),
         UNCHANGED <<config, phase, op, hand, quiet, lagging, state, tainted, async>>,
         \/ MarkStrays({config[b].under}) /\ op[b] = "update"
         \/ UNCHANGED strays /\ (op[b] = "update" => ~IsTask(b))
  PROVE  Touches(b)
<1>1. /\ folders[i] # None /\ \A j \in Ids \ {i} : folders'[j] = folders[j]
      /\ folders'[i] # None => op[b] = "update"
      /\ folders'[i] # None /\ ~IsTask(b) => folders'[i].parent = folders[i].parent
  BY ApplyDoes
<1>2. state[b] # None /\ phase # "idle"
  BY Where
<1>3. \A a \in Addresses \ {b} : quiet => ~Knows(a, i)
  BY <1>2 DEF IInv, Alone, Knows
<1>4. \A j \in Ids :
        /\ \/ folders'[j] = folders[j] /\ before'[j] = before[j]
           \/ state[b] # None /\ j = state[b].id
  BY <1>1, <1>2
<1>5. /\ strays \subseteq strays'
      /\ \A j \in Placed :
           /\ Changes(b) /\ Running(b)
           /\ \A a \in Looked(folders'[j].parent) : a # config[b].under => j \in strays'
  <2>1. CASE MarkStrays({config[b].under}) /\ op[b] = "update"
    BY <2>1, MarksDo DEF IInv, Changes, Running
  <2>2. CASE UNCHANGED strays /\ (op[b] = "update" => ~IsTask(b))
    BY <1>1, <2>2 DEF Placed
  <2> QED BY <2>1, <2>2
<1> QED BY <1>3, <1>4, <1>5 DEF Touches

\* A rename or a delete that has been sent, with its effect or without.
LEMMA SentKeeps ==
  ASSUME IInv, NEW b \in Addresses, pc[b] = "write", NEW l,
         (op[b] = "update" /\ l = "verify") \/ (op[b] = "delete" /\ l = "absent"),
         \/ Apply(b) /\ Revised(state[b].id) /\ (op[b] = "update" => ~IsTask(b))
         \/ UNCHANGED <<folders, before, age, result>>,
         pc' = [pc EXCEPT ![b] = l],
         UNCHANGED <<frame, quiet, lagging, state, tainted, scan, lock, erred>>,
         late' \subseteq Requests, trouble' \in 0..MaxTrouble
  PROVE  IInv'
<1>1. /\ phase = "apply" /\ op[b] \in {"update", "delete"} /\ state[b] # None
      /\ Changes(b) => Rests(b) /\ Grounded(b)
      /\ Changes(b) => config[b] # None
  BY Where DEF Running, Changes
<1>2. PICK i \in Ids : i = state[b].id
  BY <1>1, Where
<1>3. /\ op' = op /\ hand' = hand /\ config' = config /\ phase' = phase /\ quiet' = quiet
      /\ UNCHANGED <<strays, lagging, state, tainted, async, count, streak, lock, erred>>
  BY DEF frame, scan
<1>4. l \in {"verify", "absent"} /\ pc'[b] = l /\ \A a \in Addresses \ {b} : pc'[a] = pc[a]
  BY DEF IInv, TypeOK
<1>5. /\ folders' \in [Ids -> Folders \cup {None}]
      /\ before' \in [Ids -> Revisions \cup {None}]
      /\ age' \in [Addresses -> 0..2] /\ result' \in [Addresses -> -1..2]
      /\ \A j \in Ids : folders'[j] = None => before'[j] = None
      /\ before[i] = None => before'[i] = None
      /\ result[b] = -1 => result'[b] = -1
      /\ Touches(b)
  <2>1. CASE Apply(b) /\ Revised(i) /\ (op[b] = "update" => ~IsTask(b))
    <3>1. /\ folders[i] # None /\ \A j \in Ids \ {i} : folders'[j] = folders[j]
          /\ folders' \in [Ids -> Folders \cup {None}]
      BY <1>1, <1>2, <2>1, ApplyDoes
    <3>2. TypeOK
      BY DEF IInv
    <3>3. /\ age' \in [Addresses -> 0..2] /\ result' \in [Addresses -> -1..2]
          /\ before' \in [Ids -> Revisions \cup {None}]
          /\ \A j \in Ids \ {i} : before'[j] = before[j]
          /\ before[i] = None => before'[i] = None
          /\ \A j \in Ids : folders'[j] = None => before'[j] = None
          /\ \A a \in Addresses : result'[a] = result[a] \/ (Knows(a, i) /\ result[a] # -1)
      BY <2>1, <3>1, <3>2, RevisedDoes
    <3>4. Touches(b)
      BY <1>1, <1>2, <1>3, <1>4, <2>1, <3>3, WriteTouches DEF frame
    <3> QED BY <3>1, <3>3, <3>4
  <2>2. CASE UNCHANGED <<folders, before, age, result>>
    <3>1. Own(b)
      BY <1>3, <1>4, <2>2 DEF Own
    <3>2. Touches(b)
      BY <1>3, <2>2, <3>1, Harmless
    <3> QED BY <2>2, <3>2 DEF IInv, TypeOK
  <2> QED BY <1>2, <2>1, <2>2
<1>6. TypeOK'
  <2>1. HandlerTyped'
    BY <1>3, <1>4, <1>5, Typed DEF IInv, HandlerTyped, Places
  <2>2. PortalTyped' /\ FrameTyped'
    BY <1>3, <1>5, Typed DEF IInv, PortalTyped, FrameTyped
  <2> QED BY <2>1, <2>2, Typed
<1>7. Moves(b)
  BY <1>3, <1>4 DEF Moves
<1>8. StandsAt(b)'
  <2>1. StandsAt(b)
    BY DEF IInv, Standing
  <2>2. l \in Stages[op[b]]
    BY <1>1 DEF Stages
  <2> QED BY <1>1, <1>3, <1>4, <2>1, <2>2 DEF StandsAt, Changes
<1>9. ASSUME quiet', ~lagging
      PROVE  Reached(b)'
  <2>1. op[b] = "update" => before[i] = None /\ result[b] = -1
    BY <1>1, <1>2, <1>3, <1>9 DEF IInv, Achieved, Reached
  <2> QED BY <1>1, <1>2, <1>3, <1>4, <1>5, <2>1 DEF Reached
<1> QED BY <1>1, <1>3, <1>4, <1>5, <1>6, <1>7, <1>8, <1>9, StepKeeps DEF Changes

\* A call that ends its handler with an error, with its effect or without.
LEMMA BrokenKeeps ==
  ASSUME IInv, NEW b \in Addresses, pc[b] # "done",
         \/ /\ pc[b] = "write" /\ op[b] \in {"update", "delete"}
            /\ op[b] = "update" => ~IsTask(b)
            /\ Apply(b) /\ Revised(state[b].id)
         \/ UNCHANGED <<folders, before, age, result>>,
         pc' = [pc EXCEPT ![b] = "done"], lock' \in {None, lock}, erred' = erred \cup {b},
         UNCHANGED <<frame, quiet, lagging, state, tainted, scan>>,
         late' \subseteq Requests, trouble' \in 0..MaxTrouble
  PROVE  IInv'
<1>1. /\ op' = op /\ UNCHANGED <<state, tainted, async, count, streak>>
      /\ UNCHANGED <<config, phase, hand, quiet, strays, lagging>>
  BY DEF frame, scan
<1>2. pc'[b] = "done" /\ \A a \in Addresses \ {b} : pc'[a] = pc[a] /\ (a \in erred' <=> a \in erred)
  BY DEF IInv, TypeOK
<1>3. /\ folders' \in [Ids -> Folders \cup {None}]
      /\ before' \in [Ids -> Revisions \cup {None}]
      /\ age' \in [Addresses -> 0..2] /\ result' \in [Addresses -> -1..2]
      /\ \A j \in Ids : folders'[j] = None => before'[j] = None
      /\ phase = "refresh" => before' = before
      /\ Touches(b)
  <2>1. CASE /\ pc[b] = "write" /\ op[b] \in {"update", "delete"}
             /\ op[b] = "update" => ~IsTask(b)
             /\ Apply(b) /\ Revised(state[b].id)
    <3>1. PICK i \in Ids : i = state[b].id
      BY <2>1, Where
    <3>2. /\ folders[i] # None /\ \A j \in Ids \ {i} : folders'[j] = folders[j]
          /\ folders' \in [Ids -> Folders \cup {None}]
      BY <2>1, <3>1, ApplyDoes
    <3>3. TypeOK /\ Revised(i)
      BY <2>1, <3>1 DEF IInv
    <3>4. /\ age' \in [Addresses -> 0..2] /\ result' \in [Addresses -> -1..2]
          /\ before' \in [Ids -> Revisions \cup {None}]
          /\ \A j \in Ids \ {i} : before'[j] = before[j]
          /\ \A j \in Ids : folders'[j] = None => before'[j] = None
          /\ \A a \in Addresses : result'[a] = result[a] \/ (Knows(a, i) /\ result[a] # -1)
      BY <3>2, <3>3, RevisedDoes
    <3>5. Touches(b)
      BY <1>1, <1>2, <2>1, <3>1, <3>4, WriteTouches DEF frame
    <3>6. phase # "refresh"
      BY <2>1, Where
    <3> QED BY <3>2, <3>4, <3>5, <3>6
  <2>2. CASE UNCHANGED <<folders, before, age, result>>
    <3>1. Own(b)
      BY <1>1, <1>2, <2>2 DEF Own
    <3>2. Touches(b)
      BY <2>2, <3>1, Harmless
    <3> QED BY <2>2, <3>2 DEF IInv, TypeOK
  <2> QED BY <2>1, <2>2
<1>4. TypeOK'
  <2>1. HandlerTyped'
    BY <1>1, <1>3, Typed DEF IInv, HandlerTyped, Places
  <2>2. PortalTyped' /\ FrameTyped'
    BY <1>1, <1>3, Typed DEF IInv, PortalTyped, FrameTyped
  <2> QED BY <2>1, <2>2, Typed
<1> QED BY <1>1, <1>2, <1>3, <1>4, ErringKeeps

LEMMA RenameKeeps ==
  ASSUME IInv, NEW b \in Addresses, Rename(b)
  PROVE  IInv'
<1>1. /\ op[b] = "update" /\ pc[b] = "write" /\ ~IsTask(b)
      /\ UNCHANGED <<late, frame, quiet, lagging, trouble>>
  BY DEF Rename
<1>2. late' \subseteq Requests /\ trouble' \in 0..MaxTrouble
  BY <1>1 DEF IInv, TypeOK
<1>3. CASE /\ Apply(b) /\ Revised(state[b].id) /\ Goto(b, "verify")
           /\ UNCHANGED <<state, tainted, scan, lock, erred>>
  BY <1>1, <1>2, <1>3, SentKeeps DEF Goto
<1>4. CASE Fail(b) /\ UNCHANGED <<folders, before>>
  BY <1>1, <1>2, <1>4, FailKeeps
<1> QED BY <1>3, <1>4 DEF Rename

LEMMA DeleteKeeps ==
  ASSUME IInv, NEW b \in Addresses, Delete(b)
  PROVE  IInv'
<1>1. /\ op[b] = "delete" /\ pc[b] = "write"
      /\ UNCHANGED <<late, frame, quiet, lagging, trouble>>
  BY DEF Delete
<1>2. late' \subseteq Requests /\ trouble' \in 0..MaxTrouble
  BY <1>1 DEF IInv, TypeOK
<1>3. CASE /\ Apply(b) /\ Revised(state[b].id) /\ Goto(b, "absent")
           /\ UNCHANGED <<state, tainted, scan, lock, erred>>
  BY <1>1, <1>2, <1>3, SentKeeps DEF Goto
<1>4. CASE Continue(b, "absent") /\ UNCHANGED <<folders, before>>
  <2>1. "absent" \in Places /\ "absent" \in Stages["delete"] \ {"confirm", "ready"}
    BY DEF Places, Stages
  <2>2. HandlerTyped' /\ Own(b) /\ pc'[b] = "absent" /\ UNCHANGED <<files, erred, result, async>>
    BY <1>4, <2>1, ContinueDoes DEF IInv
  <2> QED BY <1>1, <1>2, <1>4, <2>1, <2>2, WithinKeeps DEF files, Changes
<1>5. CASE Fail(b) /\ UNCHANGED <<folders, before>>
  BY <1>1, <1>2, <1>5, FailKeeps
<1> QED BY <1>3, <1>4, <1>5 DEF Delete

LEMMA UnansweredKeeps ==
  ASSUME IInv, NEW b \in Addresses, Unanswered(b)
  PROVE  IInv'
<1>1. /\ op[b] \in {"update", "delete"} /\ pc[b] = "write"
      /\ UNCHANGED <<frame, state, tainted, scan, quiet, lagging>>
      /\ \/ Request(b).kind # "move" /\ Apply(b) /\ Revised(Request(b).id)
         \/ UNCHANGED <<folders, before, age, result>>
      /\ late' \in {late, late \cup {Request(b)}}
  BY DEF Unanswered
<1>2. /\ Request(b) \in Requests /\ Request(b).id = state[b].id
      /\ Request(b).kind \in {"create", "rename", "move", "delete"} /\ Request(b).kind # "create"
      /\ Request(b).kind = "delete" <=> op[b] = "delete"
      /\ op[b] = "update" => (Request(b).kind = "move" <=> IsTask(b))
  BY <1>1, RequestTyped
<1>3. trouble' \in 0..MaxTrouble
  BY DisturbTyped DEF Unanswered, IInv
<1>4. late' \subseteq Requests
  BY <1>1, <1>2 DEF IInv, TypeOK
<1>5. CASE Goto(b, "done") /\ Unlock(b) /\ erred' = erred \cup {b}
  BY <1>1, <1>2, <1>3, <1>4, <1>5, BrokenKeeps DEF Goto, Unlock
<1>6. CASE /\ Request(b).kind # "move"
           /\ Goto(b, IF Request(b).kind = "rename" THEN "verify" ELSE "absent")
           /\ UNCHANGED <<lock, erred>>
  <2>1. PICK l : /\ (op[b] = "update" /\ l = "verify") \/ (op[b] = "delete" /\ l = "absent")
                 /\ pc' = [pc EXCEPT ![b] = l]
    BY <1>1, <1>2, <1>6 DEF Goto
  <2> QED BY <1>1, <1>2, <1>3, <1>4, <1>6, <2>1, SentKeeps
<1> QED BY <1>5, <1>6 DEF Unanswered

LEMMA CallFailsKeeps ==
  ASSUME IInv, NEW b \in Addresses, CallFails(b)
  PROVE  IInv'
<1>1. /\ pc' = [pc EXCEPT ![b] = "done"] /\ lock' \in {None, lock} /\ erred' = erred \cup {b}
      /\ UNCHANGED <<late, frame, state, tainted, scan, quiet, lagging>>
  BY DEF CallFails, Goto, Unlock
<1>2. late' \subseteq Requests /\ trouble' \in 0..MaxTrouble
  BY <1>1, DisturbTyped DEF CallFails, IInv, TypeOK
<1>3. pc[b] # "done"
  BY DEF CallFails
<1>4. CASE UNCHANGED <<folders, before, age, result>>
  BY <1>1, <1>2, <1>3, <1>4, BrokenKeeps
<1>5. CASE /\ pc[b] = "write" /\ Request(b).kind \in {"rename", "delete"}
           /\ Apply(b) /\ Revised(state[b].id)
  <2>1. op[b] \in {"update", "delete"} /\ (op[b] = "update" => ~IsTask(b))
    BY <1>5, RequestTyped, Where DEF Stages
  <2> QED BY <1>1, <1>2, <1>3, <1>5, <2>1, BrokenKeeps
<1> QED BY <1>4, <1>5 DEF CallFails

LEMMA TaskCompletesKeeps ==
  ASSUME IInv, NEW b \in Addresses, TaskCompletes(b)
  PROVE  IInv'
<1>1. /\ pc[b] = "task" /\ op[b] = "update" /\ phase = "apply" /\ state[b] # None
      /\ Rests(b) /\ Grounded(b) /\ config[b] # None /\ Apply(b)
      /\ UNCHANGED <<late, config, phase, op, hand, state, tainted, scan, lock, erred, quiet,
                     lagging, trouble>>
      /\ MarkStrays({config[b].under})
  <2>1. pc[b] = "task" /\ op[b] = "update"
    BY Where DEF TaskCompletes, Stages
  <2> QED BY <2>1, Where DEF TaskCompletes, Running, Changes
<1>2. PICK i \in Ids : i = state[b].id
  BY <1>1, Where
<1>3. /\ op' = op /\ hand' = hand /\ config' = config /\ phase' = phase /\ quiet' = quiet
      /\ late' = late /\ trouble' = trouble /\ strays' \subseteq Ids
      /\ UNCHANGED <<lagging, state, tainted, async, count, streak, lock, erred>>
  BY <1>1, MarksDo DEF IInv, scan
<1>4. pc' = [pc EXCEPT ![b] = "verify"]
  BY DEF TaskCompletes, Goto
<1>5. pc'[b] = "verify" /\ \A a \in Addresses \ {b} : pc'[a] = pc[a]
  BY <1>4 DEF IInv, TypeOK
<1>6. /\ folders[i] # None /\ folders'[i] # None
      /\ \A j \in Ids \ {i} : folders'[j] = folders[j]
      /\ folders' \in [Ids -> Folders \cup {None}]
      /\ folders'[i].name = IF folders[i].files THEN folders[i].name ELSE config[b].name
      /\ folders'[i].parent = IF IsTask(b) THEN Parent(b) ELSE folders[i].parent
  BY <1>1, <1>2, ApplyDoes
<1>7. PICK old : /\ old = [name |-> folders[i].name, parent |-> folders[i].parent, back |-> 1]
                 /\ before' \in {[before EXCEPT ![i] = None], [before EXCEPT ![i] = old]}
  BY <1>2 DEF TaskCompletes
<1>8. /\ before' \in [Ids -> Revisions \cup {None}]
      /\ \A j \in Ids \ {i} : before'[j] = before[j]
      /\ \A j \in Ids : folders'[j] = None => before'[j] = None
  <2>1. folders[i] \in Folders
    BY <1>6 DEF IInv, TypeOK
  <2>2. old \in Revisions
    BY <1>7, <2>1 DEF Folders, Revisions
  <2>3. /\ before \in [Ids -> Revisions \cup {None}]
        /\ \A j \in Ids : folders[j] = None => before[j] = None
    BY DEF IInv, TypeOK
  <2> QED BY <1>6, <1>7, <2>2, <2>3
<1>9. /\ age' = Aged(age, i)
      /\ result' \in {[Aged(result, i) EXCEPT ![b] = 0], Aged(result, i)}
  BY <1>2 DEF TaskCompletes
<1>10. /\ age' \in [Addresses -> 0..2] /\ result' \in [Addresses -> -1..2]
       /\ \A a \in Addresses \ {b} : result'[a] = result[a] \/ Knows(a, i)
  <2>1. age \in [Addresses -> 0..2] /\ result \in [Addresses -> -1..2]
    BY DEF IInv, TypeOK
  <2>2. (\A n \in 0..2 : Older(n) \in 0..2) /\ (\A n \in -1..2 : Older(n) \in -1..2)
    BY DEF Older
  <2>3. /\ Aged(age, i) = [a \in Addresses |-> IF Knows(a, i) THEN Older(age[a]) ELSE age[a]]
        /\ Aged(result, i) =
             [a \in Addresses |-> IF Knows(a, i) THEN Older(result[a]) ELSE result[a]]
    BY DEF Aged
  <2>4. age' \in [Addresses -> 0..2]
    BY <1>9, <2>1, <2>2, <2>3
  <2>5. Aged(result, i) \in [Addresses -> -1..2]
    BY <2>1, <2>2, <2>3
  <2>6. \A a \in Addresses : Aged(result, i)[a] = result[a] \/ Knows(a, i)
    BY <2>3
  <2>7. 0 \in -1..2
    OBVIOUS
  <2> QED BY <1>9, <2>4, <2>5, <2>6, <2>7
<1>11. Touches(b)
  BY <1>1, <1>2, <1>3, <1>5, <1>8, <1>10, WriteTouches
<1>12. Moves(b)
  BY <1>1, <1>3, <1>5 DEF Moves
<1>13. TypeOK'
  <2>1. HandlerTyped'
    BY <1>3, <1>4, <1>10, Typed DEF IInv, HandlerTyped, Places
  <2>2. PortalTyped' /\ FrameTyped'
    BY <1>3, <1>6, <1>8, Typed DEF IInv, PortalTyped, FrameTyped
  <2> QED BY <2>1, <2>2, Typed
<1>14. StandsAt(b)'
  <2>1. StandsAt(b)
    BY DEF IInv, Standing
  <2> QED BY <1>1, <1>3, <1>5, <2>1 DEF StandsAt, Changes, Stages
<1>15. ASSUME quiet', ~lagging
       PROVE  Reached(b)'
  <2>1. /\ folders[i].name = state[b].name /\ folders[i].parent = state[b].parent
        /\ state[b].name # config[b].name => ~folders[i].files
    BY <1>1, <1>2, <1>3, <1>15 DEF IInv, Achieved, Reached, InSync
  <2>2. folders'[i].name = config[b].name /\ folders'[i].parent = Parent(b)
    BY <1>6, <2>1 DEF IsTask
  <2>3. Parent(b)' = Parent(b)
    BY <1>1, <1>11, <1>12, RestsKeeps
  <2>4. AsConfigured(b)'
    BY <1>1, <1>2, <1>3, <1>6, <2>2, <2>3 DEF AsConfigured
  <2> QED BY <1>1, <1>3, <1>5, <2>4 DEF Reached
<1> QED BY <1>1, <1>3, <1>5, <1>11, <1>12, <1>13, <1>14, <1>15, StepKeeps

\* A create that the portal carries out: in a folder nobody has heard of, or
\* in one that has its name and place already.
LEMMA CreateDoes ==
  ASSUME IInv, NEW b \in Addresses, pc[b] = "write", op[b] = "create",
         NEW i \in Answer(Request(b)), folders' = Effect(Request(b), i)
  PROVE  /\ i \in Ids
         /\ folders' \in [Ids -> Folders \cup {None}]
         /\ folders[i] = None => Unknown(i)
         /\ \A j \in Ids : /\ folders'[j] = folders[j] \/ folders[j] = None
                           /\ folders'[j] = None => folders[j] = None
                           /\ folders'[j] # None => \/ folders[j] # None
                                                    \/ folders'[j].parent = Parent(b)
<1>1. PICK r \in Requests : r = Request(b)
  BY RequestTyped
<1>2. r.kind = "create" /\ r.parent = Parent(b) /\ r.name \in Names /\ r.parent \in Ids \cup {Root}
  BY <1>1, RequestTyped DEF Requests
<1>3. i \in Ids /\ (folders[i] = None => i \in Fresh)
  BY <1>1 DEF Answer, Namesakes, ChildFolders, Fresh, Unheard
<1>4. ASSUME i \in Fresh
      PROVE  Unknown(i)
  BY <1>4 DEF Fresh, Unheard, HeardOf, Unknown
<1>5. folders \in [Ids -> Folders \cup {None}] /\ None \notin Folders
  BY FolderAssumption DEF IInv, TypeOK
<1>6. PICK g \in Folders : g = [name |-> r.name, parent |-> r.parent, files |-> FALSE]
  BY <1>2 DEF Folders
<1>7. folders' = IF folders[i] # None THEN folders ELSE [folders EXCEPT ![i] = g]
  BY <1>1, <1>2, <1>6 DEF Effect
<1>8. g.parent = Parent(b) /\ g # None
  BY <1>2, <1>5, <1>6
<1> QED BY <1>3, <1>4, <1>5, <1>7, <1>8

LEMMA CreateAnsweredKeeps ==
  ASSUME IInv, NEW b \in Addresses, CreateAnswered(b)
  PROVE  IInv'
<1>1. /\ pc[b] = "write" /\ op[b] = "create" /\ phase = "apply" /\ state[b] = None
      /\ Rests(b) /\ Grounded(b) /\ config[b] # None /\ Changes(b) /\ Running(b)
      /\ UNCHANGED <<before, late, config, phase, op, lagging, trouble>>
      /\ MarkStrays({config[b].under})
  BY Where DEF CreateAnswered, Running, Changes
<1>0. late' \subseteq Requests /\ trouble' \in 0..MaxTrouble
  BY <1>1 DEF IInv, TypeOK
<1>2. /\ late' \subseteq Requests /\ trouble' \in 0..MaxTrouble
      /\ strays \subseteq strays' /\ strays' \subseteq Ids
      /\ \A j \in Placed :
           \A a \in Looked(folders'[j].parent) : a # config[b].under => j \in strays'
      /\ folders' = folders => strays' = strays
  BY <1>0, <1>1, MarksDo DEF IInv
<1>3. CASE Fail(b) /\ UNCHANGED <<folders, hand, quiet>>
  BY <1>1, <1>2, <1>3, FailKeeps DEF frame
<1>4. ASSUME NEW i \in Answer(Request(b)), folders' = Effect(Request(b), i),
             hand' = [hand EXCEPT ![b] = i], quiet' = (quiet /\ folders[i] = None),
             Continue(b, "confirm")
      PROVE  IInv'
  <2>1. /\ i \in Ids /\ folders' \in [Ids -> Folders \cup {None}]
        /\ folders[i] = None => Unknown(i)
        /\ \A j \in Ids : /\ folders'[j] = folders[j] \/ folders[j] = None
                          /\ folders'[j] = None => folders[j] = None
                          /\ folders'[j] # None => \/ folders[j] # None
                                                   \/ folders'[j].parent = Parent(b)
    BY <1>1, <1>4, CreateDoes
  <2>2. "confirm" \in Places
    BY DEF Places
  <2>3. /\ HandlerTyped' /\ Own(b) /\ pc'[b] = "confirm"
        /\ UNCHANGED <<state, age, tainted, erred, result, async>>
    BY <1>4, <2>2, ContinueDoes DEF IInv, files
  <2>4. hand'[b] = i /\ (\A a \in Addresses \ {b} : hand'[a] = hand[a])
        /\ hand' \in [Addresses -> Ids \cup {Root}]
    BY <1>4, <2>1 DEF IInv, TypeOK
  <2>5. TypeOK'
    <3>1. quiet' \in BOOLEAN
      BY <1>4 DEF IInv, TypeOK
    <3>2. PortalTyped' /\ FrameTyped'
      BY <1>1, <1>2, <2>1, <2>4, <3>1, Typed DEF IInv, PortalTyped, FrameTyped
    <3> QED BY <2>3, <3>2, Typed
  <2>6. Touches(b)
    BY <1>1, <1>2, <1>4, <2>1, <2>3, <2>4 DEF Touches, Own
  <2>7. Moves(b)
    BY <1>1, <2>3 DEF Moves
  <2>8. StandsAt(b)'
    <3>1. StandsAt(b)
      BY DEF IInv, Standing
    <3> QED BY <1>1, <2>1, <2>3, <2>4, <3>1 DEF StandsAt, Changes, Stages
  <2>9. quiet' => Unknown(hand'[b]) /\ before[i] = None
    BY <1>4, <2>1, <2>4 DEF IInv, TypeOK
  <2>10. quiet' => Reached(b)'
    BY <1>1, <2>3, <2>4, <2>9 DEF Reached
  <2> QED BY <1>1, <2>3, <2>5, <2>6, <2>7, <2>8, <2>9, <2>10, StepKeeps
<1> QED BY <1>3, <1>4 DEF CreateAnswered

LEMMA CreateUnknownKeeps ==
  ASSUME IInv, NEW b \in Addresses, CreateUnknown(b)
  PROVE  IInv'
<1>1. /\ pc[b] = "write" /\ op[b] = "create" /\ phase = "apply" /\ state[b] = None
      /\ Changes(b) /\ Running(b) /\ Fail(b)
      /\ UNCHANGED <<before, config, phase, op, hand, quiet, lagging>>
  BY Where DEF CreateUnknown, Running, Changes
<1>2. /\ late' \in {late, late \cup {Request(b)}}
      /\ strays \subseteq strays' /\ strays' \subseteq Ids
      /\ \A j \in Placed :
           \A a \in Looked(folders'[j].parent) : a # config[b].under => j \in strays'
      /\ folders' = folders => strays' = strays
  BY MarksDo DEF CreateUnknown, IInv
<1>3. late' \subseteq Requests
  BY <1>1, <1>2, RequestTyped DEF IInv, TypeOK
<1>4. trouble' \in 0..MaxTrouble
  BY DisturbTyped DEF CreateUnknown, IInv
<1>5. CASE UNCHANGED folders
  BY <1>1, <1>2, <1>3, <1>4, <1>5, FailKeeps DEF frame
<1>6. ASSUME NEW i \in Answer(Request(b)), folders' = Effect(Request(b), i)
      PROVE  IInv'
  <2>1. /\ folders' \in [Ids -> Folders \cup {None}]
        /\ \A j \in Ids : /\ folders'[j] = folders[j] \/ folders[j] = None
                          /\ folders'[j] = None => folders[j] = None
                          /\ folders'[j] # None => \/ folders[j] # None
                                                   \/ folders'[j].parent = Parent(b)
    BY <1>1, <1>6, CreateDoes
  <2>2. /\ HandlerTyped' /\ Own(b) /\ pc'[b] = "done" /\ b \in erred'
        /\ UNCHANGED <<state, tainted>>
    BY <1>1, FailDoes DEF IInv, files
  <2>3. TypeOK'
    <3>1. PortalTyped' /\ FrameTyped'
      BY <1>1, <1>2, <1>3, <1>4, <2>1, Typed DEF IInv, PortalTyped, FrameTyped
    <3> QED BY <2>2, <3>1, Typed
  <2>4. Touches(b)
    BY <1>1, <1>2, <2>1, <2>2 DEF Touches, Own
  <2> QED BY <1>1, <2>2, <2>3, <2>4, ErringKeeps
<1> QED BY <1>5, <1>6 DEF CreateUnknown

----------------------------------------------------------------------------
(* Everything else that happens.                                           *)

LEMMA StepsKeep ==
  ASSUME IInv, NEW b \in Addresses, Step(b)
  PROVE  IInv'
BY ReadKeeps, CollideKeeps, NoFilesKeeps, HasChildrenKeeps, AwaitParentKeeps,
   CreateAnsweredKeeps, CreateUnknownKeeps, ConfirmKeeps, RenameKeeps, StartTaskKeeps,
   TaskCompletesKeeps, TaskFailsKeeps, VerifyKeeps, NoChildFoldersKeeps, NoChildFilesKeeps,
   DeleteKeeps, AwaitAbsenceKeeps, UnansweredKeeps, CallFailsKeeps, StartKeeps, SkipKeeps,
   ReplaceKeeps
   DEF Step

LEMMA InitKeeps ==
  ASSUME Init
  PROVE  IInv
<1>1. TypeOK
  <2>1. 0 \in 0..2 /\ 0 \in 0..Attempts - 1 /\ 0 \in 0..Matches - 1 /\ -1 \in -1..2
        /\ 0 \in 0..MaxTrouble
    BY FolderAssumption
  <2> QED BY <2>1 DEF Init, TypeOK
<1>2. phase = "idle" /\ \A a \in Addresses : /\ pc[a] = "done" /\ op[a] = "none"
                                             /\ state[a] = None /\ a \notin tainted
  BY DEF Init
<1>3. Standing
  BY <1>2 DEF Standing, StandsAt, AllDone, Changes
<1>4. Settled
  BY <1>2 DEF Settled, Running
<1> QED BY <1>1, <1>2, <1>3, <1>4 DEF IInv, Alone, Leaves, Refreshed, Achieved

LEMMA StartRunKeeps ==
  ASSUME IInv, StartRun
  PROVE  IInv'
<1>1. /\ phase' = "refresh" /\ config' \in Configs /\ erred' = {} /\ quiet' = ~Shared
      /\ lagging' = (\E i \in Ids : before[i] # None)
      /\ op' = [a \in Addresses |-> IF state[a] = None THEN "none" ELSE "read"]
      /\ pc' = [a \in Addresses |-> IF state[a] = None THEN "done" ELSE "get"]
      /\ count' = [a \in Addresses |-> 0]
      /\ UNCHANGED <<folders, before, late, state, age, tainted, hand, streak, async, result,
                     lock, strays, trouble>>
  BY DEF StartRun, portal, files
<1>2. TypeOK'
  <2>1. 0 \in 0..Attempts - 1
    BY FolderAssumption
  <2> QED BY <1>1, <2>1 DEF IInv, TypeOK
<1>3. \A a \in Addresses : \/ state[a] = None /\ op'[a] = "none" /\ pc'[a] = "done"
                           \/ state[a] # None /\ op'[a] = "read" /\ pc'[a] = "get"
  BY <1>1
<1>4. Standing'
  <2> SUFFICES ASSUME NEW a \in Addresses
               PROVE  StandsAt(a)'
    BY <1>1 DEF Standing
  <2>1. a \in tainted => state[a] # None
    BY DEF IInv, Standing, StandsAt
  <2> QED BY <1>1, <1>3, <2>1 DEF StandsAt, Stages, Changes
<1>5. Settled' /\ Leaves' /\ Achieved'
  BY <1>1, <1>3 DEF Settled, Changes, Leaves, Achieved
<1>6. Alone'
  BY <1>1, <1>3 DEF Alone, Shared, Knows
<1>7. Refreshed'
  BY <1>1, <1>3 DEF Refreshed
<1> QED BY <1>2, <1>4, <1>5, <1>6, <1>7 DEF IInv

\* The plan starts from a refresh that found everything.
LEMMA PlanKeeps ==
  ASSUME IInv, Plan
  PROVE  IInv'
<1>1. /\ phase = "refresh" /\ phase' = "apply" /\ erred = {} /\ \A a \in Addresses : pc[a] = "done"
      /\ op' = [a \in Addresses |-> Planned(a)]
      /\ pc' = [a \in Addresses |-> IF Planned(a) = "none" THEN "done" ELSE "ready"]
      /\ count' = [a \in Addresses |-> 0] /\ streak' = [a \in Addresses |-> 0]
      /\ async' = {} /\ result' = [a \in Addresses |-> -1]
      /\ hand' = [a \in Addresses |-> Root]
      /\ UNCHANGED <<folders, before, late, config, state, age, tainted, lock, erred, quiet,
                     strays, lagging, trouble>>
  BY DEF Plan, AllDone, portal, files
<1>2. ASSUME NEW a \in Addresses
      PROVE  \/ /\ Planned(a) = "delete" /\ state[a] # None
             \/ /\ Planned(a) = "create" /\ state[a] = None /\ config[a] # None
             \/ /\ Planned(a) = "none" /\ state[a] = None /\ config[a] = None
             \/ /\ Planned(a) = "none" /\ state[a] # None /\ config[a] # None /\ a \notin tainted
                /\ state[a].name = config[a].name /\ SameParent(a)
             \/ /\ Planned(a) = "update" /\ state[a] # None /\ config[a] # None /\ a \notin tainted
                /\ ~(state[a].name = config[a].name /\ SameParent(a))
  BY DEF Planned
<1>3. \A a \in Addresses : /\ op'[a] = Planned(a) /\ result'[a] = -1
                           /\ pc'[a] = IF Planned(a) = "none" THEN "done" ELSE "ready"
  BY <1>1
<1>4. TypeOK'
  <2>1. 0 \in 0..Attempts - 1 /\ 0 \in 0..Matches - 1 /\ -1 \in -1..2
    BY FolderAssumption
  <2>2. op' \in [Addresses -> {"none", "read", "create", "update", "delete"}]
    BY <1>1, <1>2
  <2>3. pc' \in [Addresses -> Places]
    BY <1>1 DEF Places
  <2> QED BY <1>1, <2>1, <2>2, <2>3 DEF IInv, TypeOK, Places
<1>5. Standing'
  <2> SUFFICES ASSUME NEW a \in Addresses
               PROVE  StandsAt(a)'
    BY <1>1 DEF Standing
  <2>1. a \in tainted => state[a] # None
    BY DEF IInv, Standing, StandsAt
  <2>2. a \in tainted => Planned(a) = "delete"
    BY <2>1 DEF Planned
  <2> QED BY <1>1, <1>2, <1>3, <2>1, <2>2 DEF StandsAt, Stages, Changes
<1>6. Settled'
  BY <1>3 DEF Settled, Running
<1>7. Alone'
  BY <1>1, <1>3 DEF IInv, Alone
<1>8. Leaves'
  BY <1>3 DEF Leaves
<1>9. Achieved'
  <2> SUFFICES ASSUME quiet, ~lagging, NEW a \in Addresses
               PROVE  Reached(a)'
    BY <1>1 DEF Achieved
  <2>1. \A i \in Ids : before[i] = None
    BY <1>1 DEF IInv, Refreshed
  <2>2. state[a] # None => InSync(a) /\ state[a].id \in Ids
    BY <1>1, Constants DEF IInv, Refreshed, TypeOK
  <2>3. ASSUME Planned(a) = "none", config[a] # None
        PROVE  AsConfigured(a)' /\ Rests(a)'
    <3>1. /\ state[a] # None /\ InSync(a) /\ state[a].name = config[a].name /\ SameParent(a)
      BY <1>2, <2>2, <2>3
    <3>2. state[a].parent = Parent(a)
      BY <3>1 DEF SameParent, Parent
    <3>3. AsConfigured(a)'
      BY <1>1, <2>3, <3>1, <3>2 DEF AsConfigured, InSync, Parent
    <3>4. ASSUME NEW u \in Addresses, u = config[a].under
          PROVE  /\ state[u] # None /\ u \notin tainted
                 /\ Planned(u) \in {"none", "update"}
      <4>1. state[u] # None /\ u \notin tainted
        BY <3>1, <3>4 DEF SameParent
      <4>2. config[u] # None
        BY <2>3, <3>4, FolderAssumption DEF IInv, TypeOK
      <4> QED BY <4>1, <4>2 DEF Planned
    <3>5. Rests(a)'
      BY <1>1, <1>3, <3>4 DEF Rests
    <3> QED BY <3>3, <3>5
  <2>4. ASSUME Planned(a) = "none", config[a] = None
        PROVE  AsConfigured(a)'
    BY <1>1, <1>2, <2>4 DEF AsConfigured
  <2>5. Planned(a) = "update" => InSync(a)' /\ before'[state'[a].id] = None
    BY <1>1, <1>2, <2>1, <2>2 DEF InSync
  <2> QED BY <1>1, <1>3, <2>3, <2>4, <2>5 DEF Reached, Changes
<1> QED BY <1>1, <1>4, <1>5, <1>6, <1>7, <1>8, <1>9 DEF IInv, Refreshed

\* What is left when a run is over, in order or not.
LEMMA ClearedKeeps ==
  ASSUME IInv, Cleared, phase' = "idle", \A a \in Addresses : pc'[a] = "done",
         pc' \in [Addresses -> Places], lock' \in Addresses \cup {None},
         UNCHANGED <<folders, before, files, config, quiet>>,
         late' \subseteq Requests, trouble' \in 0..MaxTrouble
  PROVE  IInv'
<1>1. /\ op' = [a \in Addresses |-> "none"] /\ hand' = [a \in Addresses |-> Root]
      /\ count' = [a \in Addresses |-> 0] /\ streak' = [a \in Addresses |-> 0]
      /\ async' = {} /\ result' = [a \in Addresses |-> -1]
      /\ erred' = {} /\ strays' = {} /\ lagging' = FALSE
      /\ state' = state /\ age' = age /\ tainted' = tainted
  BY DEF Cleared, files
<1>2. TypeOK'
  <2>1. 0 \in 0..Attempts - 1 /\ 0 \in 0..Matches - 1 /\ -1 \in -1..2
    BY FolderAssumption
  <2> QED BY <1>1, <2>1 DEF IInv, TypeOK, Places
<1>3. Standing'
  <2>1. \A a \in Addresses : a \in tainted => state[a] # None
    BY DEF IInv, Standing, StandsAt
  <2> QED BY <1>1, <2>1 DEF Standing, StandsAt, AllDone, Changes
<1>4. Settled'
  BY DEF Settled, Running
<1> QED BY <1>2, <1>3, <1>4 DEF IInv, Alone, Leaves, Refreshed, Achieved

LEMMA EndRunKeeps ==
  ASSUME IInv, EndRun
  PROVE  IInv'
<1>1. /\ AllDone /\ phase' = "idle" /\ Cleared
      /\ UNCHANGED <<folders, before, late, files, config, pc, lock, quiet, trouble>>
  BY DEF EndRun, portal
<1>2. pc' \in [Addresses -> Places] /\ lock' \in Addresses \cup {None}
      /\ late' \subseteq Requests /\ trouble' \in 0..MaxTrouble
  BY <1>1 DEF IInv, TypeOK, Places
<1> QED BY <1>1, <1>2, ClearedKeeps DEF AllDone

LEMMA CrashKeeps ==
  ASSUME IInv, Crash
  PROVE  IInv'
<1>1. /\ phase' = "idle" /\ pc' = [a \in Addresses |-> "done"] /\ lock' = None /\ Cleared
      /\ UNCHANGED <<folders, before, files, config, quiet>>
      /\ Disturb
  BY DEF Crash
<1>2. late' \subseteq Requests
  <2>1. PICK sent \in SUBSET {a \in Addresses : pc[a] \in {"write", "task"}} :
          late' = late \cup {Request(a) : a \in sent}
    BY DEF Crash
  <2>2. \A a \in sent : Request(a) \in Requests
    BY RequestTyped
  <2> QED BY <2>1, <2>2 DEF IInv, TypeOK
<1>3. pc' \in [Addresses -> Places] /\ trouble' \in 0..MaxTrouble
  BY <1>1, DisturbTyped DEF IInv, Places
<1> QED BY <1>1, <1>2, <1>3, ClearedKeeps

LEMMA ImportKeeps ==
  ASSUME IInv, NEW a \in Addresses, NEW i \in Ids, Import(a, i)
  PROVE  IInv'
<1>1. /\ phase = "idle" /\ Get(i) # None
      /\ state' = [state EXCEPT ![a] = Snapshot(i)]
      /\ age' = [age EXCEPT ![a] = AgeOfGet(i)]
      /\ UNCHANGED <<folders, before, late, tainted, config, phase, op, hand, pc, count, streak,
                     async, result, lock, erred, quiet, strays, lagging, trouble>>
  BY DEF Import, portal, frame, poll
<1>2. Snapshot(i) \in States /\ AgeOfGet(i) \in 0..2
  BY <1>1, GetTyped DEF IInv
<1>3. TypeOK'
  BY <1>1, <1>2 DEF IInv, TypeOK
<1>4. AllDone /\ \A b \in Addresses : StandsAt(b)
  BY <1>1 DEF IInv, Standing
<1>5. \A b \in Addresses : state[b] # None => state'[b] # None
  BY <1>1, <1>2, Constants DEF IInv, TypeOK
<1>6. Standing'
  BY <1>1, <1>4, <1>5 DEF Standing, StandsAt, AllDone, Changes
<1>7. Settled'
  BY <1>1, <1>4 DEF Settled, Running, AllDone
<1> QED BY <1>1, <1>3, <1>6, <1>7 DEF IInv, Alone, Leaves, Refreshed, Achieved

\* A step of somebody else, after which the run has not its folders to itself.
LEMMA NoisyKeeps ==
  ASSUME IInv, TypeOK', quiet' = FALSE, MarkStrays({}),
         UNCHANGED <<config, phase, op, hand, state, tainted, pc, async, erred>>
  PROVE  IInv'
<1>1. Standing'
  BY DEF IInv, Standing, StandsAt, AllDone, Changes
<1>2. Settled'
  BY DEF IInv, Settled, Rests, Grounded, Running, Changes
<1>3. Leaves'
  <2> SUFFICES ASSUME phase = "apply", NEW a \in Addresses, op[a] = "update",
                      pc[a] \in {"collide", "parent", "write"}, a \notin async,
                      state[a].name # config[a].name, NEW i \in Ids,
                      folders'[i] # None, folders'[i].parent = state[a].id
               PROVE  i \in strays'
    BY DEF Leaves, ChildFolders
  <2>1. /\ strays \subseteq strays'
        /\ \A j \in Placed : \A c \in Looked(folders'[j].parent) : j \in strays'
    BY MarksDo DEF IInv
  <2>2. CASE i \in Placed
    <3>1. a \in Looked(folders'[i].parent)
      BY DEF Looked, Knows, IInv, Standing, StandsAt
    <3> QED BY <2>1, <2>2, <3>1
  <2>3. CASE i \notin Placed
    <3>1. i \in ChildFolders(state[a].id)
      BY <2>3 DEF Placed, ChildFolders
    <3> QED BY <2>1, <3>1 DEF IInv, Leaves
  <2> QED BY <2>2, <2>3
<1> QED BY <1>1, <1>2, <1>3 DEF IInv, Alone, Refreshed, Achieved

LEMMA ForeignKeeps ==
  ASSUME IInv, Foreign
  PROVE  IInv'
<1>1. /\ quiet' = FALSE /\ Disturb /\ MarkStrays({})
      /\ UNCHANGED <<late, state, tainted, config, phase, op, hand, pc, count, streak, async,
                     lock, erred, lagging>>
  BY DEF Foreign, scan
<1>2. trouble' \in 0..MaxTrouble /\ strays' \subseteq Ids
  BY <1>1, DisturbTyped, MarksDo DEF IInv
<1>3. /\ TypeOK /\ folders \in [Ids -> Folders \cup {None}] /\ None \notin Folders
      /\ before \in [Ids -> Revisions \cup {None}]
      /\ \A i \in Ids : folders[i] = None => before[i] = None
  BY FolderAssumption DEF IInv, TypeOK
<1> DEFINE PortalChanged ==
             /\ folders' \in [Ids -> Folders \cup {None}]
             /\ before' \in [Ids -> Revisions \cup {None}]
             /\ age' \in [Addresses -> 0..2] /\ result' \in [Addresses -> -1..2]
             /\ \A j \in Ids : folders'[j] = None => before'[j] = None
<1>4. ASSUME NEW i \in Fresh, NEW n \in Names, NEW p \in Ids \cup {Root},
             UNCHANGED <<before, age, result>>,
             folders' = [folders EXCEPT ![i] = [name |-> n, parent |-> p, files |-> FALSE]]
      PROVE  PortalChanged
  <2>1. i \in Ids
    BY DEF Fresh, Unheard
  <2>2. PICK g \in Folders : g = [name |-> n, parent |-> p, files |-> FALSE]
    BY DEF Folders
  <2>3. folders' = [folders EXCEPT ![i] = g]
    BY <1>4, <2>2
  <2> QED BY <1>3, <1>4, <2>1, <2>3 DEF TypeOK
<1>5. ASSUME NEW i \in Ids, folders[i] # None, Revised(i),
             \/ \E n \in Names : folders' = [folders EXCEPT ![i].name = n]
             \/ folders' = [folders EXCEPT ![i] = None]
      PROVE  PortalChanged
  <2>1. \E g \in Folders \cup {None} : folders' = [folders EXCEPT ![i] = g]
    <3>1. ASSUME NEW n \in Names, folders' = [folders EXCEPT ![i].name = n]
          PROVE  \E g \in Folders \cup {None} : folders' = [folders EXCEPT ![i] = g]
      <4>1. folders[i] \in Folders
        BY <1>3, <1>5
      <4>2. [folders[i] EXCEPT !.name = n] \in Folders
        BY <4>1 DEF Folders
      <4>3. folders' = [folders EXCEPT ![i] = [folders[i] EXCEPT !.name = n]]
        BY <3>1
      <4> QED BY <4>2, <4>3
    <3> QED BY <1>5, <3>1
  <2>2. folders' \in [Ids -> Folders \cup {None}] /\ \A j \in Ids \ {i} : folders'[j] = folders[j]
    BY <1>3, <2>1
  <2> QED BY <1>3, <1>5, <2>2, RevisedDoes
<1>6. ASSUME NEW i \in Ids, folders[i] # None, UNCHANGED <<before, age, result>>,
             folders' = [folders EXCEPT ![i].files = ~@]
      PROVE  PortalChanged
  <2>1. folders[i] \in Folders
    BY <1>3, <1>6
  <2>2. PICK g : g = [folders[i] EXCEPT !.files = ~folders[i].files]
    OBVIOUS
  <2>3. g \in Folders
    BY <2>1, <2>2 DEF Folders
  <2>4. folders' = [folders EXCEPT ![i] = g]
    BY <1>6, <2>2
  <2> QED BY <1>3, <1>6, <2>3, <2>4 DEF TypeOK
<1>7. PortalChanged
  BY <1>4, <1>5, <1>6 DEF Foreign
<1>8. TypeOK'
  BY <1>1, <1>2, <1>7 DEF IInv, TypeOK
<1> QED BY <1>1, <1>8, NoisyKeeps

LEMMA CatchUpKeeps ==
  ASSUME IInv, NEW i \in Ids, CatchUp(i)
  PROVE  IInv'
<1>1. /\ before' = [before EXCEPT ![i] = None]
      /\ UNCHANGED <<folders, late, state, age, tainted, config, phase, op, hand, pc, count,
                     streak, async, result, lock, erred, quiet, strays, lagging, trouble>>
  BY DEF CatchUp, files, frame, poll
<1>2. TypeOK'
  BY <1>1 DEF IInv, TypeOK
<1>3. Standing' /\ Settled'
  BY <1>1 DEF IInv, Standing, StandsAt, AllDone, Settled, Rests, Grounded, Running, Changes
<1>4. Alone' /\ Leaves'
  BY <1>1 DEF IInv, Alone, Leaves, ChildFolders
<1>5. \A j \in Ids : before[j] = None => before'[j] = None
  BY <1>1 DEF IInv, TypeOK
<1>6. Refreshed'
  BY <1>1, <1>5 DEF IInv, Refreshed, InSync
<1>7. Achieved'
  <2> SUFFICES ASSUME phase = "apply", quiet, ~lagging, NEW a \in Addresses
               PROVE  Reached(a)'
    BY <1>1 DEF Achieved
  <2>1. Reached(a)
    BY DEF IInv, Achieved
  <2>2. (AsConfigured(a)' <=> AsConfigured(a)) /\ (Rests(a)' <=> Rests(a))
        /\ (InSync(a)' <=> InSync(a))
    BY <1>1 DEF AsConfigured, Parent, Rests, InSync
  <2>3. op[a] = "update" /\ pc[a] # "done" => state[a].id \in Ids
    BY Where
  <2>4. pc[a] = "confirm" => hand[a] \in Ids
    BY DEF IInv, Standing, StandsAt
  <2> QED BY <1>1, <1>5, <2>1, <2>2, <2>3, <2>4 DEF Reached, Changes
<1> QED BY <1>2, <1>3, <1>4, <1>6, <1>7 DEF IInv

LEMMA ArriveLateKeeps ==
  ASSUME IInv, ArriveLate
  PROVE  IInv'
<1>1. PICK r \in late :
        /\ late' = late \ {r}
        /\ \/ /\ Accepts(r)
              /\ IF r.kind = "create"
                   THEN /\ \E i \in Answer(r) : folders' = Effect(r, i)
                        /\ UNCHANGED <<before, age, result>>
                   ELSE folders' = Effect(r, r.id) /\ Revised(r.id)
              /\ quiet' = FALSE
           \/ UNCHANGED <<folders, before, age, result, quiet>>
        /\ MarkStrays({})
        /\ UNCHANGED <<state, tainted, config, phase, op, hand, pc, scan, lock, erred, lagging,
                       trouble>>
  BY DEF ArriveLate
<1>2. /\ UNCHANGED <<state, tainted, config, phase, op, hand, pc, count, streak, async, lock,
                     erred, lagging, trouble>>
      /\ MarkStrays({}) /\ strays' \subseteq Ids /\ (folders' = folders => strays' = strays)
  BY <1>1, MarksDo DEF IInv, scan
<1>3. late' \subseteq Requests /\ r \in Requests
  BY <1>1 DEF IInv, TypeOK
<1>4. /\ TypeOK /\ folders \in [Ids -> Folders \cup {None}] /\ None \notin Folders
      /\ \A i \in Ids : folders[i] = None => before[i] = None
  BY FolderAssumption DEF IInv, TypeOK
<1>5. CASE UNCHANGED <<folders, before, age, result, quiet>>
  <2>1. TypeOK'
    BY <1>2, <1>3, <1>5 DEF IInv, TypeOK
  <2>2. Standing' /\ Settled'
    BY <1>2 DEF IInv, Standing, StandsAt, AllDone, Settled, Rests, Grounded, Running, Changes
  <2>3. Alone' /\ Leaves'
    BY <1>2, <1>5 DEF IInv, Alone, Leaves, ChildFolders
  <2>4. Refreshed'
    BY <1>2, <1>5 DEF IInv, Refreshed, InSync
  <2>5. Achieved'
    BY <1>2, <1>5 DEF IInv, Achieved, Reached, AsConfigured, Parent, Rests, InSync, Changes
  <2> QED BY <2>1, <2>2, <2>3, <2>4, <2>5 DEF IInv
<1>6. ASSUME NEW i \in Answer(r), r.kind = "create", folders' = Effect(r, i),
             UNCHANGED <<before, age, result>>, quiet' = FALSE
      PROVE  IInv'
  <2>1. i \in Ids
    BY DEF Answer, Namesakes, ChildFolders, Fresh, Unheard
  <2>2. PICK g \in Folders : g = [name |-> r.name, parent |-> r.parent, files |-> FALSE]
    BY <1>3 DEF Requests, Folders
  <2>3. folders' = IF folders[i] # None THEN folders ELSE [folders EXCEPT ![i] = g]
    BY <1>6, <2>2 DEF Effect
  <2>4. /\ folders' \in [Ids -> Folders \cup {None}]
        /\ \A j \in Ids : folders'[j] = None => folders[j] = None
    BY <1>4, <2>1, <2>3
  <2>5. TypeOK'
    BY <1>2, <1>3, <1>6, <2>4 DEF IInv, TypeOK
  <2> QED BY <1>2, <1>6, <2>5, NoisyKeeps
<1>7. CASE /\ Accepts(r) /\ r.kind # "create" /\ folders' = Effect(r, r.id) /\ Revised(r.id)
           /\ quiet' = FALSE
  <2>1. r.id \in Ids
    BY <1>3, <1>7 DEF Requests
  <2>2. /\ folders[r.id] # None /\ \A j \in Ids \ {r.id} : folders'[j] = folders[j]
        /\ folders' \in [Ids -> Folders \cup {None}]
    BY <1>3, <1>4, <1>7, <2>1, EffectOn
  <2>3. /\ age' \in [Addresses -> 0..2] /\ result' \in [Addresses -> -1..2]
        /\ before' \in [Ids -> Revisions \cup {None}]
        /\ \A j \in Ids : folders'[j] = None => before'[j] = None
    BY <1>4, <1>7, <2>1, <2>2, RevisedDoes
  <2>4. TypeOK'
    BY <1>2, <1>3, <1>7, <2>2, <2>3 DEF IInv, TypeOK
  <2> QED BY <1>2, <1>7, <2>4, NoisyKeeps
<1> QED BY <1>1, <1>5, <1>6, <1>7

LEMMA NextKeeps ==
  ASSUME IInv, [Next]_vars
  PROVE  IInv'
<1>1. CASE Next
  BY <1>1, StepsKeep, ImportKeeps, StartRunKeeps, PlanKeeps, EndRunKeeps, CrashKeeps,
     ForeignKeeps, ArriveLateKeeps, CatchUpKeeps DEF Next
<1>2. CASE UNCHANGED vars
  <2>1. TypeOK' /\ Standing' /\ Settled'
    BY <1>2 DEF vars, IInv, TypeOK, Standing, StandsAt, AllDone, Settled, Rests, Grounded,
                Running, Changes
  <2>2. Alone' /\ Leaves' /\ Refreshed'
    BY <1>2 DEF vars, IInv, Alone, Leaves, ChildFolders, Refreshed, InSync
  <2>3. Achieved'
    BY <1>2 DEF vars, IInv, Achieved, Reached, AsConfigured, Parent, Rests, InSync, Changes
  <2> QED BY <2>1, <2>2, <2>3 DEF IInv
<1> QED BY <1>1, <1>2

----------------------------------------------------------------------------
(* What follows from the invariant.                                        *)

\* Which step changes what the state file says of an address.
LEMMA WhoWritesState ==
  ASSUME IInv, [Next]_vars, NEW a \in Addresses, state'[a] # state[a]
  PROVE  Read(a) \/ Confirm(a) \/ Verify(a) \/ AwaitAbsence(a) \/ \E i \in Ids : Import(a, i)
<1>1. state \in [Addresses -> States \cup {None}]
  BY DEF IInv, TypeOK
<1>2. \A b \in Addresses : \A f : state' = [state EXCEPT ![b] = f] => a = b
  BY <1>1
<1>3. CASE \E i \in Ids, b \in Addresses : Import(b, i)
  BY <1>2, <1>3 DEF Import
<1>4. CASE StartRun \/ Plan \/ EndRun \/ Crash \/ Foreign \/ ArriveLate \/ UNCHANGED vars
           \/ \E i \in Ids : CatchUp(i)
  BY <1>4 DEF StartRun, Plan, EndRun, Crash, Foreign, ArriveLate, CatchUp, vars, files
<1>5. ASSUME NEW b \in Addresses, Step(b)
      PROVE  a = b /\ (Read(b) \/ Confirm(b) \/ Verify(b) \/ AwaitAbsence(b))
  <2>1. \A l : /\ Continue(b, l) => state' = state
               /\ PollAgain(b, l) => state' = state
    BY DEF Continue, PollAgain, files
  <2>2. Fail(b) => state' = state
    BY DEF Fail, files
  <2>3. \A f, n : Record(b, f, n) => a = b
    BY <1>2 DEF Record
  <2>4. Forget(b) => a = b
    BY <1>2 DEF Forget
  <2>5. ~(Collide(b) \/ NoFiles(b) \/ HasChildren(b) \/ AwaitParent(b) \/ CreateAnswered(b)
          \/ CreateUnknown(b))
    BY <2>1, <2>2 DEF Collide, NoFiles, HasChildren, AwaitParent, CreateAnswered, CreateUnknown,
                      files
  <2>6. ~(Rename(b) \/ StartTask(b) \/ TaskCompletes(b) \/ TaskFails(b)
          \/ NoChildFolders(b) \/ NoChildFiles(b) \/ Delete(b))
    BY <2>1, <2>2 DEF Rename, StartTask, TaskCompletes, TaskFails, NoChildFolders, NoChildFiles,
                      Delete, files
  <2>7. ~(Unanswered(b) \/ CallFails(b) \/ Start(b) \/ Skip(b) \/ Replace(b))
    BY DEF Unanswered, CallFails, Start, Skip, Replace, files
  <2>8. Read(b) \/ Verify(b) \/ AwaitAbsence(b) => a = b
    BY <2>1, <2>2, <2>3, <2>4 DEF Read, Verify, AwaitAbsence, files
  <2>9. Confirm(b) => a = b
    BY <1>2 DEF Confirm
  <2> QED BY <1>5, <2>5, <2>6, <2>7, <2>8, <2>9 DEF Step
<1> QED BY <1>3, <1>4, <1>5 DEF Next

\* Which step moves a handler that reads.
LEMMA WhoMovesRead ==
  ASSUME IInv, [Next]_vars, NEW a \in Addresses, op[a] = "read", pc'[a] # pc[a], phase' = phase
  PROVE  Read(a) \/ CallFails(a)
<1>1. pc \in [Addresses -> Places]
  BY DEF IInv, TypeOK, Places
<1>2. \A b \in Addresses : \A l : pc' = [pc EXCEPT ![b] = l] => a = b
  BY <1>1
<1>3. CASE (\E i \in Ids, b \in Addresses : Import(b, i)) \/ Foreign \/ ArriveLate \/ UNCHANGED vars
           \/ \E i \in Ids : CatchUp(i)
  BY <1>3 DEF Import, Foreign, ArriveLate, CatchUp, vars
<1>4. ~StartRun /\ ~Plan /\ ~EndRun /\ ~Crash
  BY DEF StartRun, Plan, EndRun, Crash
<1>5. ASSUME NEW b \in Addresses, Step(b)
      PROVE  a = b /\ (Read(b) \/ CallFails(b))
  <2>1. \A l : /\ Continue(b, l) => a = b
               /\ PollAgain(b, l) => a = b
               /\ Goto(b, l) => a = b
    BY <1>2 DEF Continue, PollAgain, Goto
  <2>2. (Fail(b) => a = b) /\ (Forget(b) => a = b) /\ (Done(b) => a = b)
        /\ \A f, n : Record(b, f, n) => a = b
    BY <2>1 DEF Fail, Done, Forget, Record
  <2>3. Read(b) \/ CallFails(b) => a = b
    BY <2>1, <2>2 DEF Read, CallFails
  <2>4. a = b => pc[b] \in {"get", "done"}
    BY Where DEF Stages
  <2>5. ~(Collide(b) \/ NoFiles(b) \/ HasChildren(b) \/ AwaitParent(b) \/ CreateAnswered(b)
          \/ CreateUnknown(b) \/ Confirm(b))
    BY <2>1, <2>2, <2>4 DEF Collide, NoFiles, HasChildren, AwaitParent, CreateAnswered,
                            CreateUnknown, Confirm
  <2>6. ~(Rename(b) \/ StartTask(b) \/ TaskCompletes(b) \/ TaskFails(b) \/ NoChildFolders(b))
    BY <2>1, <2>2, <2>4 DEF Rename, StartTask, TaskCompletes, TaskFails, NoChildFolders
  <2>7. ~(NoChildFiles(b) \/ Delete(b) \/ AwaitAbsence(b) \/ Unanswered(b))
    BY <2>1, <2>2, <2>4 DEF NoChildFiles, Delete, AwaitAbsence, Unanswered
  <2>8. ~(Start(b) \/ Skip(b) \/ Replace(b))
    <3>0. Start(b) => op[b] \in {"create", "update", "delete"}
      BY Where DEF Start, Stages
    <3>1. Start(b) \/ Skip(b) \/ Replace(b) => a = b
      BY <2>1, <3>0 DEF Start, Skip, Replace
    <3> QED BY <2>4, <3>1 DEF Start, Skip, Replace, Replacing
  <2>9. ~Verify(b)
    <3>1. Verify(b) => a = b
      BY <2>2 DEF Verify
    <3> QED BY <2>4, <3>1 DEF Verify
  <2> QED BY <1>5, <2>3, <2>5, <2>6, <2>7, <2>8, <2>9 DEF Step
<1> QED BY <1>3, <1>4, <1>5 DEF Next

\* The invariant holds in every state that any order of the handlers, of the
\* portal, of crashes and of other writers can reach.
THEOREM Invariance == Spec => []IInv
<1>1. Init => IInv
  BY InitKeeps
<1>2. IInv /\ [Next]_vars => IInv'
  BY NextKeeps
<1> QED BY <1>1, <1>2, PTL DEF Spec

\* Every variable has its type, and there is an older revision only of a
\* folder that still exists.
THEOREM TypeCorrect == Spec => []TypeOK
<1>1. IInv => TypeOK
  BY DEF IInv
<1> QED BY <1>1, Invariance, PTL

\* After a run without an error in which nobody else wrote, and which began
\* when reads were up to date, every address is as the configuration says, in
\* the state file and in the portal: name, parent and existence.
THEOREM SuccessVerified == Spec => []SuccessIsVerified
<1>1. ASSUME IInv
      PROVE  SuccessIsVerified
  <2> SUFFICES ASSUME Succeeded, ~lagging, NEW a \in Addresses
               PROVE  AsConfigured(a)
    BY DEF SuccessIsVerified
  <2>1. /\ phase = "apply" /\ quiet /\ pc[a] = "done" /\ a \notin erred /\ ~Replacing(a)
    BY DEF Succeeded, AllDone
  <2>2. Reached(a) /\ StandsAt(a)
    BY <1>1, <2>1 DEF IInv, Achieved, Standing
  <2>3. op[a] \in {"none", "create", "update", "delete"}
    BY <1>1, <2>1, <2>2 DEF IInv, TypeOK, StandsAt
  <2>4. CASE op[a] = "delete"
    BY <2>1, <2>2, <2>4 DEF StandsAt, Replacing, AsConfigured
  <2>5. CASE op[a] # "delete"
    BY <2>1, <2>2, <2>3, <2>5 DEF Reached, Changes
  <2> QED BY <2>4, <2>5
<1> QED BY <1>1, Invariance, PTL

\* No handler lets go of a folder that exists, nor takes another one for it:
\* a refresh that finds nothing and a delete are all that forget one.
THEOREM IdentityIsKept == Spec => IdentityKept
<1>1. ASSUME IInv, [Next]_vars, NEW a \in Addresses, state[a] # None,
             state'[a] = None \/ state'[a].id # state[a].id
      PROVE  folders[state[a].id] = None
  <2>1. Read(a) \/ Confirm(a) \/ Verify(a) \/ AwaitAbsence(a) \/ \E i \in Ids : Import(a, i)
    BY <1>1, WhoWritesState
  <2>2. ~Confirm(a) /\ \A i \in Ids : ~Import(a, i)
    BY <1>1, Where DEF Confirm, Import
  <2>3. PICK i : i = state[a].id
    OBVIOUS
  <2>4. \A f, n : Record(a, f, n) => state'[a] = f
    BY <1>1 DEF Record, IInv, TypeOK
  <2>5. /\ Snapshot(i).id = i /\ Wanted(a, i).id = i
        /\ Get(i) = None => folders[i] = None
    BY DEF Snapshot, Wanted, Get
  <2>6. /\ \A l : ~PollAgain(a, l)
        /\ ~Fail(a)
        /\ ~UNCHANGED files
    BY <1>1 DEF PollAgain, Fail, files
  <2>7. CASE Read(a)
    <3>1. Get(i) # None => state'[a] = Snapshot(i)
      BY <2>3, <2>4, <2>6, <2>7 DEF Read
    <3>2. Get(i) # None => state'[a] # None
      <4>1. Get(i) # None => Snapshot(i) \in States
        BY <1>1, <2>3, <2>7, Where, GetTyped DEF Read, IInv
      <4> QED BY <3>1, <4>1, Constants
    <3> QED BY <1>1, <2>3, <2>5, <3>1, <3>2
  <2>8. CASE Verify(a)
    <3>1. state'[a] = Wanted(a, i)
      BY <2>3, <2>4, <2>6, <2>8 DEF Verify
    <3>2. Wanted(a, i) # None
      <4>1. op[a] = "update" /\ pc[a] = "verify"
        BY <2>8 DEF Verify
      <4>2. config[a] # None /\ Rests(a) /\ i \in Ids
        BY <1>1, <2>3, <4>1, Where DEF Changes, Running
      <4> QED BY <1>1, <4>2, WantedTyped
    <3> QED BY <1>1, <2>3, <2>5, <3>1, <3>2
  <2>9. CASE AwaitAbsence(a)
    BY <2>3, <2>5, <2>6, <2>9 DEF AwaitAbsence
  <2> QED BY <2>1, <2>2, <2>7, <2>8, <2>9
<1>2. IInv /\ [Next]_vars =>
        [\A a \in Addresses :
           state[a] # None /\ (state'[a] = None \/ state'[a].id # state[a].id)
             => folders[state[a].id] = None]_vars
  BY <1>1
<1> QED BY <1>2, Invariance, PTL DEF Spec, IdentityKept

\* A refresh keeps the newest revision that the state file has known: what it
\* records is not older, however long reads return an older one.
THEOREM RefreshNeverGoesBack == Spec => RefreshKeepsNewest
<1>1. ASSUME IInv, [Next]_vars, NEW a \in Addresses, op[a] = "read", pc'[a] # pc[a],
             phase' = phase, state'[a] # None
      PROVE  age'[a] <= age[a]
  <2>1. age[a] \in 0..2
    BY <1>1 DEF IInv, TypeOK
  <2>2. age'[a] = age[a] => age'[a] <= age[a]
    BY <2>1
  <2>3. CASE CallFails(a)
    <3>1. pc[a] # "write"
      BY <1>1, <2>3, Where DEF CallFails, Stages
    <3> QED BY <2>2, <2>3, <3>1 DEF CallFails
  <2>4. CASE Read(a)
    <3>1. PICK i : i = state[a].id
      OBVIOUS
    <3>2. i \in Ids /\ pc[a] = "get"
      BY <1>1, <2>4, <3>1, Where DEF Read
    <3>3. ~Forget(a)
      BY <1>1 DEF Forget, IInv, TypeOK
    <3>4. ~PollAgain(a, "get")
      BY <1>1, <3>2 DEF PollAgain, Goto, IInv, TypeOK
    <3>5. CASE UNCHANGED files
      BY <2>2, <3>5 DEF files
    <3>6. CASE Get(i) # None /\ ~(AgeOfGet(i) > age[a]) /\ Record(a, Snapshot(i), AgeOfGet(i))
      <4>1. age'[a] = AgeOfGet(i)
        BY <1>1, <3>6 DEF Record, IInv, TypeOK
      <4>2. AgeOfGet(i) \in 0..2
        BY <1>1, <3>2, <3>6, GetTyped DEF IInv
      <4> QED BY <2>1, <3>6, <4>1, <4>2
    <3> QED BY <2>4, <3>1, <3>3, <3>4, <3>5, <3>6 DEF Read
  <2> QED BY <1>1, <2>3, <2>4, WhoMovesRead
<1>2. IInv /\ [Next]_vars =>
        [\A a \in Addresses :
           op[a] = "read" /\ pc'[a] # pc[a] /\ phase' = phase /\ state'[a] # None
             => age'[a] <= age[a]]_vars
  BY <1>1
<1> QED BY <1>2, Invariance, PTL DEF Spec, RefreshKeepsNewest

\* A rename by PATCH hits a folder without folders in it, in any order of the
\* handlers and whoever else writes: those it may hold are strays, which came
\* after the preflight from somebody who does not wait for that handler.
THEOREM OnlyLeavesPatched == Spec => PatchOnlyLeaves
<1>1. ASSUME IInv, NEW a \in Addresses, op[a] = "update", pc[a] = "write", ~IsTask(a),
             state[a].name # config[a].name
      PROVE  ChildFolders(state[a].id) \subseteq strays
  <2>1. phase = "apply"
    BY <1>1, Where
  <2>2. a \notin async
    BY <1>1 DEF IsTask
  <2> QED BY <1>1, <2>1, <2>2 DEF IInv, Leaves
<1>2. IInv /\ [Next]_vars =>
        [\A a \in Addresses :
           /\ op[a] = "update" /\ pc[a] = "write" /\ pc'[a] # "write"
           /\ ~IsTask(a) /\ state[a].name # config[a].name
           /\ folders' # folders
           => ChildFolders(state[a].id) \subseteq strays]_vars
  BY <1>1
<1> QED BY <1>2, Invariance, PTL DEF Spec, PatchOnlyLeaves
=============================================================================
