# OpenFusion in TLA+

OpenFusion is a game server: a login server and a shard server, two threads of
one process that share a database and a table of serial keys. This directory
holds TLA+ modules translated from its source, TLC configurations that check
them on small instances, and TLAPS proofs about most of them. Paths below are
relative to the repository.

* [Inventory](#inventory): the parts of the program, their state and hazards
* [Plan](#plan): what is written and what is left
* [Modules](#modules): how state and actions correspond to the code
* [Runs](#runs), [Findings](#findings), [Proofs](#proofs)
* [Fairness](#fairness), [Bounds](#bounds), [What is left out](#what-is-left-out)

## Inventory

How the parts interact: each server runs one thread, `CNServer::start()`
(`src/core/CNProtocol.cpp`), which polls its sockets, runs a packet handler to
completion for each packet, then the timers that are due, then cleans up dead
sockets. Handlers of the shard therefore never interleave with each other: what
is hard in the shard is not atomicity but a long sequence of handlers that each
maintain a part of redundant state. The two threads meet in `CNShared` and in the
database, each behind its own mutex.

| Component | State it keeps | Operations | What makes it correct | What is hard |
|---|---|---|---|---|
| Chunking (`Chunking.cpp`) | chunks with their entities and player counts; in every entity its chunk and a cache of pointers to the chunks it sees; in every mob a count of the players that see it; what each client was told to draw | track, untrack, show, hide, move between chunks, make and destroy instances | all this redundant state agrees after every handler | incremental maintenance, pointers to deleted chunks, creation and deletion order |
| NPC manager (`NPCManager.cpp`) | `NPCs`, `nextId`, the removal queue | summon, unsummon, move, warp, removal after the AI step | removal leaves no trace | entities freed while listed, insertion while iterating |
| Player manager (`PlayerManager.cpp`) | `players` | enter, load, move, warp, exit, exit of a duplicate | one player per account; nothing unsaved is lost | order of clean-ups, duplicate logins |
| Mob AI (`MobAI.cpp`), Combat, Abilities, Buffs | a state machine per mob (roaming, combat, retreat, dead), targets, buffs | a step every 200 ms, transitions | the dead come back, targets are valid | stale targets, coordinates against chunks |
| Eggs (`Eggs.cpp`) | dead flag and regrowth time | pick up, regrow | the clients draw exactly the living eggs | order of telling and dying |
| Groups (`Groups.cpp`) | Group objects and back pointers to them | invite, accept, refuse, leave, kick, disband | pointers and lists agree; no group of one | late acceptance, deletion under nested calls |
| Trading (`Trading.cpp`) | in each player the items and taros it offers, two flags | offer, accept, refuse, cancel, confirm, register, unregister | nothing is duplicated, lost or created; nobody confirms what it has not seen | no record of who trades with whom; everything else a player can do meanwhile |
| Items, Vendors, Email (`Items.cpp`, `Vendors.cpp`, `Email.cpp`) | inventory, bank, equipment, buy-back list; mail rows with attachments | move, delete, use, open; buy, sell, buy back, combine; send, collect, delete | value comes only from the game; a crash leaves no more than there is | mail is written at once, players every few minutes; full inventories, stacking, failure half-way |
| Missions, Nanos, Racing (`Missions.cpp`, `Nanos.cpp`, `Racing.cpp`) | task log, quest items, completed missions, Fusion Matter; nanos, three slots, stamina; one race | start, end, quit, fail a task; equip, tune, summon; rings | every reward comes once; nobody summons a nano without a skill | kill, reward, Fusion Matter, nano mission and nano call each other |
| Buddies (`Buddies.cpp`) | a list per player in memory, two tables | request, accept, refuse, block, delete | lists and tables agree | one friendship in three places; late answers |
| Transport, Chat | routes, paths, a list of lines | path steps, fares | paths are the ones laid | interpolation |
| Login server (`CNLoginServer.cpp`) | sessions | login, character creation, selection, deletion, naming, duplicate exit, live check | one session per account | sessions of dead sockets |
| CNShared | serial keys to characters | store, take, prune | a key is used once | two threads, a timer |
| Shard server (`CNShardServer.cpp`) | timers | keep-alive, periodic save, item expiry | silent players go, everybody is saved | a crash between two saves |
| CNProtocol | sockets, poll set, keys, packet assembly | read, parse, kill, clean up, shutdown | a dead socket is released once | two-phase death, partial reads, shutdown from a signal |
| Database (`src/db`) | rows | load, save, commit of a trade, accounts, mail | transactions | saves of one player at a time |
| Commands, TableData (`CustomCommands.cpp`, `TableData.cpp`) | the gruntwork tables, the gruntwork file | put down, turn, lead, take away, flush, load | what is flushed comes back | ids are handed out anew at every start |
| Access (levels, cookies, bans) | a level in the table and one in the player; cookies; bans | log in, change a level, ban, kick | the two copies agree; nobody rises to the top | characters deleted while they play, second login with a cookie |
| Settings, monitor, sandbox, packets, random numbers | tables, output | start-up and I/O | not stateful enough to model | the monitor's unsynchronised list |

`PROJECT.json` lists every component with its status, and under `hazards` each
thing that is hard to test at the line where it bites, with the property that
would catch it or the reason why none does.

## Plan

Written: `Chunking` (the heart of the shard), `Groups` with the abstract `Parties`,
`Sessions`, `Trading`, `Mobs`, `Possessions` with the abstract `Ledger`, `Progress`,
`Buddies`, `Gruntwork`, `Access`. `X.tla` is the specification, `MCX.tla` and
`MCX*.cfg` its small instances, `XProofs.tla` the theorems about it for every
instance. Every module takes its sets as CONSTANTS with named assumptions, has one
action per handler or timer, and declares no RECURSIVE operator. All of them but
`Gruntwork` have proofs; those about `Access` are in `SessionsProofs`, with the rest
of the login server's. Nothing of the plan is left to write.

## Modules

The modules meet where one takes as given what another shows. Only `Sessions` and
`Access` share variables, the login server's sessions and bans (`LoginServer`);
`Access` takes from `Sessions` that an account has one player; `Trading`,
`Possessions` and `Progress` that a save is one transaction and that handlers of the
shard do not interleave; `Mobs` takes from `Chunking` that a mob is awake exactly
while somebody sees it. Two levels of one thing are joined by a refinement: `Groups`
implements `Parties`, `Possessions` implements `Ledger`.

In every module a definition whose comment begins with "Mutant" is not part of
the specification: it is the definition next to it changed in the way a plausible
bug would, and shows that the property named for it in `PROJECT.json` notices.

### Chunking

One variable, `world`, a record of what the handlers change:

| field | code |
|---|---|
| `live`, `ents`, `nplayers` | keys of `Chunking::chunks`, `Chunk::entities`, `Chunk::nplayers` |
| `here` | keys of `PlayerManager::players` and `NPCManager::NPCs` |
| `pos`, `views` | `Entity::chunkPos`, `Entity::viewableChunks` |
| `at`, `home` | the chunk the coordinates of the entity lie in, and a mob's spawn coordinates |
| `up` | `isExtant()`: `hp > 0` of mobs, `!dead` of eggs, true of all others |
| `seen` | `playersInView` |
| `summoned`, `gone` | `Mob::summoned`, `Mob::despawned` |
| `told` | the entities the client was sent a NEW or ENTER packet for, and no EXIT since |

Operators from `NewChunk` to `CreateInstance` are the functions of
`Chunking.cpp`, from a world to a world, composed by the actions in the order the
handlers call them. A position is a cell in an instance, or `NoChunk` for
`INVALID_CHUNK`; an instance is a public map or a private copy, whose id holds
the leader's id in its upper half (`Owner`) and the map in its lower (`BaseMap`).

| action | code |
|---|---|
| `EnterPlayer` | `enterPlayer()`, `addPlayer()` |
| `MovePlayer` | `loadPlayer()`, all of `PlayerMovement.cpp` |
| `WarpPlayer`, `WarpIntoInstance` | `sendPlayerTo()` and its callers; `handleWarp()` into a lair, alone or as a group |
| `TransportWarp` | `transportWarpHandler()`, by S.C.A.M.P.E.R. from wherever the player is, without the clean-up of the others |
| `RemovePlayer` | `removePlayer()` |
| `MoveNPC`, `RetreatMob` | `updateNPCPosition()` from paths and pursuit; `retreatStep()`, which changes coordinates only |
| `SummonNPC`, `UnsummonNPC` | `summonNPC()` with its callers, `destroyNPC()` |
| `KillMob`, `DespawnMob`, `RespawnMob` | `onDeath()`, the two halves of `deadStep()`, with the removal queue |
| `PickUpEgg`, `RegrowEgg` | `eggPickup()`, `eggStep()` |

Abstractions. Delays are nondeterminism. Ids come from a finite pool (`Unused`)
in which an id is not given out again while a client still draws its last
bearer; the code counts `nextId` down and never reuses one. A mob group shows
only in that a mob may respawn where another one stands; followers are copied
into instances like single mobs. A warp of a group to a public zone is a
sequence of `WarpPlayer`. `createInstance()` and `destroyInstance()` are given
in closed form: the entities of another instance do not see them happen. A group
has at most four members, sent one after the other (`SendMember`). Lord Fuse's
events are in `Mobs`.

Properties: `IndexAgrees` (lists are the inverse of cached positions, nothing freed
is listed), `LiveIffPopulated` (a chunk exists iff it holds something),
`PlayersCounted`, `CachesFresh` (the cache of pointers is exactly the existing
chunks around, the count that puts an AI to sleep is exact), `ClientsAgree` (what
clients draw), `NoLairIsAbandoned` (nobody but a rider of the S.C.A.M.P.E.R. leaves
a lair behind without anybody in it, and that one only the lair it was in) and
`LairsArePreserved` (both action properties), `DeadReturn` (liveness). `IndexIntact`
is the conjunction of the first five, for the run with instances.

### Groups and Parties

`Parties` is the promise: disjoint sequences of two to four players that grow at
the end, shrink by one and are dissolved. `Groups` is `Groups.cpp`: `members`
(Group objects), `group` (back pointers in players), `roster` (what clients
display). `RemoveFromGroup` models the recursion of `removeFromGroup()`, which
removes the last remaining member too and then deletes the object. An
invitation leaves no trace in the server, so `JoinGroup` accepts at any time.
It assumes of clients that nobody accepts an invitation from itself: neither
`requestGroup()` nor `joinGroup()` (`src/Groups.cpp:188-256`) tests for that, and an
acceptance that names its own sender would make a group that lists it twice.
`ImplementsParties` is the refinement: the set of the member lists is the
abstract state. The code that adds NPCs to groups has no caller and is left out.

### Sessions

The login server (`session`, `hungUp`), `CNShared` (`pending`), the shard
(`conn`, `players`), the database (`known` and `banned` accounts, the `stage` of
each character's making, `saved`), and a history variable `achieved`.

| action | code |
|---|---|
| `NewAccount`, `Login` | `login()`, `newAccount()` with good credentials; a login to an account in use is refused, and what its client may do about that, PC_EXIT_DUPLICATE, is `KillSession` |
| `NameSave`, `CharacterCreate`, `FinishTutorial`, `CharacterDelete` | the handlers of the same names; a character is a row, then dressed, then done |
| `CharacterSelect` | `characterSelect()`: a serial key goes to `CNShared` and to the client |
| `EnterTake`, `EnterRead`, `EnterKick`, `EnterReread` | `enterPlayer()`, one action for each time it takes a mutex; `busy` says where it is, and no other handler of the shard runs meanwhile, but the login thread does |
| `BeginSave`, `SaveNext` | `periodicSaveTimer()`, one transaction per player |
| `KillConnection`, `CleanUpConnection`, `KillSession`, `CleanUpSession` | death of a socket, by its client, by silence or by `exitDuplicate()`, and the end of the poll loop's iteration |
| `Ban`, `Unban`, `Prune`, `Crash` | the commands, `pruneLoginMetadata()`, the end of the process, which forgets all but the database and what clients know |

Abstractions. Connecting and PC_ENTER are one step and a socket sends one
PC_ENTER. Ages (five minutes for keys, 32 and 60 seconds for silence) are "at
any time". What a player achieves is a set of tokens, each achieved once; a save
writes the set. Names and slots are free, passwords and cookies good (`Access`
has them otherwise). A client plays the tutorial only with a dressed character
and selects only a finished one.

Properties: `OnePlayerPerAccount`; `MemoryIsNewest` (the next save of a player
does not set the database back); `NothingIsForgotten` (what was achieved is in
the database or in memory, however a player leaves); `BannedStayOut` (an action
property: the ban does not reach who is in, but nobody who is banned gets in
again); `DeadAreReleased` (liveness). That a serial key lets one client in is in
`TypeOK`.

### Trading

The fields of both players (`inv`, `money`, `trading`, `confirmed`, `offer`,
`cash`), the database (`saved`), and the clients, which are external: `with` is
the partner a trade window shows, `asked` the offers displayed, `accepting` an
acceptance that is on its way. `terms` is a history variable, what a player
confirmed; `made` counts what the game handed out, and what trades forged: the
taros that `tradeConfirm()` credits to one side and cannot collect from the other
(`Owing`). The actions are the handlers
of `Trading.cpp`, and what else befalls a player: `GainItem`, `LoseItem`,
`MoveItem` (which alone tests `isTrading`), `GainMoney`, `SpendMoney`,
`SavePlayer`, `Login`, `Logout`, `Crash`. `DoTrade` computes the exchange slot by
slot on copies, failing at the first slot that does not fit.

Abstractions. Packets of a trade are handled when they are sent, except the
acceptance. A client lists only what its inventory shows. The stack limit is
above the bounds. `doTrade()` copies `iTimeLimit` of no item and renumbers the
slots in `Trade` for the reply; neither is observable here.

Properties: `NothingIsDuplicated` (items and taros, in the shard and in what a
crash leaves: there is no more than the game handed out and trades forged),
`ConfirmedTermsStand` (whoever changes the terms undoes both
confirmations).

### Mobs

`Mobs` is the state machine of `MobAI.cpp` with the half of `Combat.cpp`,
`Abilities.cpp` and `Buffs.cpp` that befalls mobs. Its variable `world` has for
each mob the state, whether it has health, its target, the attack it winds up
(`skillStyle`), its buffs, how many retreat steps it is away from home, and
`despawned`; `troop`, chosen at the start, says which mobs are loaded, who leads
whom and whom a death summons (the NPC events of Lord Fuse).

A step of the timer and a blow are single actions, but what they call nests:
`EnterCombat`, `Retreat`, `Die` and `AggroOrRetreat` are operators from a
world to a world or a set of worlds, and the steps compose them in the order of
the code: a mob that strikes its target down retreats, which makes its group
retreat; a buff tick may kill it before it acts; a nano that answers a corruption
attack may kill it in the middle of casting.

| action | code |
|---|---|
| `StepLost`, `StepFight` | `combatStep()`: without a valid target, and with one |
| `StepRoaming`, `StepRetreat` | `roamingStep()` with the aggro check, `retreatStep()` |
| `StepDead`, `StepRespawn` | the two halves of `deadStep()`, with the removal queue |
| `Attack`, `UseNano` | `pcAttackNpcs()` and the projectiles; nano skills against mobs |
| `Join`, `Leave`, `Walk`, `Perish`, `Revive` | what players do that a mob notices |

Abstractions. Damage, distances, rolls and times are choices. A player is online
or not, fit (alive and not invulnerable) or not, near or not: `near` stands for
the views of all mobs at once. Positions and chunks are in `Chunking`.

Properties: `StatesAreCoherent` (a mob has a target exactly while it fights, is
dead exactly without health, and carries neither a debuff nor a wound-up attack
out of a fight; `combatStep()` dereferences the target and `takeDamage()`
asserts), `FightsEnd` (liveness: a mob on its way back arrives, and a fight with
somebody who left, died or became invulnerable ends).

### Possessions and Ledger

`Ledger` is the promise: the wealth of a player in memory, in the database and in
its mail grows only by what the game pays out, and a crash leaves no more than
there is. `Possessions` is `Items.cpp`, `Vendors.cpp`, `Email.cpp` with its
tables, the vehicles and the capped amounts. Places are numbered as in the table
`Inventory`: three equipment slots that matter, the inventory, the bank. Mail is
`mail[p]`, in the database; `saved[p]` is the last save; a client reads what it
wants, so every handler that takes a slot or an index takes any.

| actions | code |
|---|---|
| `ItemMove`, `ItemDelete`, `ItemUse`, `ChestOpen`, `GiveDrop`, `ExpireItems` | `Items.cpp`, with stacking, swapping, the two crate rolls and the timer |
| `VendorBuy`, `VendorSell`, `VendorBuyback`, `BuyBattery`, `CombineItems` | `Vendors.cpp` |
| `EmailSend`, `EmailReceiveTaros`, `EmailReceiveItemSingle`, `EmailReceiveItemAll`, `EmailDelete` | `Email.cpp`; `EmailSend` includes the failure that gives everything back |
| `EnterVehicle`, `ExitVehicle`, `TransportWarp`, `Redeem` | `PlayerManager.cpp`, `Transport.cpp`, the command for codes |
| `SavePlayer`, `Login`, `Logout`, `DeleteCharacter`, `Crash` | `db/player.cpp`, `db/login.cpp` |

The nanocom boosters are the kinds "hunter", "racer" and "quester"; worn, with a
time limit, they are the same items and sell for the same, but they expire
(`Started`). `ItemUse` is `itemUseHandler()`: a gumball is eaten, a booster is worn
in the place of an older one, and a DX (`Items.cpp:539-581`) becomes one of each.
What those are worth beyond the DX is paid out by the game: `earned` counts it, as
it does what comes out of a crate.

Abstractions. One kind of item is in the shops and drops of a run at a time
(`stock`, chosen at the start). Clients buy one at a time of what does not
stack, send counts of at least one, can pay what they post with its postage
(the check in `Email.cpp` compares the other way round), stay in one payzone, and
name mails that exist (for others `EmailData` is returned as it was on the
stack). A mail that fails with part of a stack attached loses the rest of the
stack (`Email.cpp:298`): the model does the same, and the ledger allows losses.
The weights of the crates' drop tables are left out, one code exists.

Properties: `ImplementsLedger`, `RidersHaveVehicles` (nobody drives without a
vehicle in the slot), and in `TypeOK` that no stack outgrows its kind and no
place holds zero items.

### Progress

One player: the task log, quest items, completed missions, level, Fusion Matter,
nanos with skill and stamina, the three slots, the nano that is out, a race.
`game`, chosen at the start, is part of the mission data: for each task its kills,
items, timer, successor, reward. The functions of `Missions.cpp` and
`Nanos.cpp` are operators on a player that call each other as the code does:
`MobKilled` counts a kill for every task in the log, which may end one in the
middle of the loop, which pays the reward, whose Fusion Matter may start the nano
mission, whose end adds a nano and raises the level.

| actions | code |
|---|---|
| `TaskStart`, `TaskEnd`, `TaskTimeout`, `TaskStop`, `KillMob`, `ChangePlayerGuide` | `Missions.cpp`, `PlayerManager.cpp` |
| `NanoEquip`, `NanoUnequip`, `NanoSummon`, `NanoUnsummon`, `NanoTune`, `NanoPotion`, `NanoSkillUse`, `GiveNano` | `Nanos.cpp`, the command |
| `Step` | `Player::step()`: stamina of the active and the resting nanos |
| `RaceStart`, `RaceGetPod`, `RaceCancel`, `RaceEnd` | `Racing.cpp` |
| `Warp`, `GooDamage`, `RevivePhoenix`, `Respawn`, `Relog` | what else touches tasks and nanos |

Abstractions. All of this is saved in one transaction, so that a crash takes the
player back to an earlier state as a whole; only the login that follows is an action
(`Relog`, with what `getPlayer()` drops). The three parallel counters of a task are
one. Batteries, boosts, race rankings, `CurrentMissionID`, the quest item slots and
`Nanos[0]` are left out. `nanoEquipHandler()` (`Nanos.cpp:209-219`) and
`setNanoSkill()` (`Nanos.cpp:114-125`) do not ask whether the nano they are given is
the player's; nor do `NanoEquip` and `NanoTune`, so that a nano may have a skill, be
summoned and tire before it is owned, and is not saved then (`LoadedNanos`). Clients
rest a nano that is tired, and begin a mission only while more than two places of
the log are free: on a full one `Missions.cpp:322` would write behind it. The
theorem `NanoMissionsHaveAPlace` says that this suffices. Missions and levels are
tables that are not in the repository; `LimitsGrow`, `MissionsAreChains` and
`QuestItemsAreTaken` are what the properties need of them: that the limit of Fusion
Matter grows with the level, that one task ends a mission, and that a task that
collects an item takes away at its end what it gave at its start. The code tests
none of this.

Properties: `MissionsArePaid` (a reward has been given once if the mission is
completed, never else, and its nano is owned), `ItemsNeverOvershoot` (or the
test for equality in `isQuestItemFull()` never succeeds),
`SummonedNanoIsPowered` ("prevent powerless nanos from summoning": the nano that is
out has a skill, be it owned or not).

### Buddies

The list of each player online (`list`), the tables (`friends`, `blocks`), and
the dialogs on the clients' screens (`asked`): a request leaves no trace in the
server, so that an answer may come after lists have filled, either side has left,
or the asker has been deleted. Actions are the handlers of `Buddies.cpp`, login,
logout and the deletion of a character. A client does not ask or block whom it
lists, nor block whom it asked before the answer; a character is deleted only
when not online. `ListsAgree`: a list says of every character what the tables
say. `TypeOK` adds that nobody is listed twice and a vacated slot is as new.

### Gruntwork

What administrators edit: NPCs, mobs, mob groups, eggs and skyway routes they put
down, turn, lead and take away, in the open, in a lair and in a private copy of
it. `world` has the NPCs and the tables `Running*` and `FinishedNPCPaths`; `file`
is the gruntwork file; `Flush` and `Load` are `flush()` and the part of `init()`
that builds a world from the static tables and the file. `StopInFlush` stops the
process after the file was truncated. `EditsSurvive`: what is flushed now is what
the next start brings back, as bags of NPCs that forget the ids, since dynamic ids
are handed out anew. Types, heights, speeds and offsets are left out, paths are
absolute; administrators lead no mob of the static tables (whose path would
make `init()` give up, `Transport.cpp:402`), nothing in a private lair, and do not
take away what somebody leads. The packet NPC_UNSUMMON (`NPCManager.cpp:143`), which
takes an NPC away without a look at these tables and leaves a mob of `RunningMobs`
listed that is gone, is outside this module; to the index it is `UnsummonNPC` of
`Chunking`.

### Access

Account levels, in the table and in the player; bans; cookies, written by an
external program; logins by password and cookie, account creation; deletion of a
character at the character screen while it plays; the commands that change a
level, ban, unban and kick. `Sessions` shows that an account has one player;
here that is taken for granted. `LevelsAgree`: the two copies of a level agree.
`ChiefStands`: however the others raise, demote and ban each other, nobody gets
the strongest level and the account that has it keeps it. `AccessTypeOK` says
that a cookie lets one session in each time it is made good. The state and these
properties are in `Rights`, which the proofs extend together with `Sessions`.

## Runs

| run | configuration | states | what it shows |
|---|---|---|---|
| `chunking_open` | 2 players, 1 mob, 1 egg, 3 cells in a row, one map, fair timers | 27489 | lists, caches, counters and clients agree after every handler; what died comes back |
| `chunking_lair` | 2 players, 2 mobs, 1 egg, 1 other NPC, 1 cell, a lair and one private copy | 57288 | the same with instances; the S.C.A.M.P.E.R. apart none outlives its players, none goes under them |
| `groups` | 5 players, 2 Group objects | 1792 | pointers, lists and rosters agree, Groups implements Parties |
| `sessions` | 1 account, 2 characters, 2 login and 2 shard sockets, 2 keys, 2 things to achieve, fair threads | 161316 | one player per account, nothing is lost but by a crash, the banned stay out |
| `trading` | 2 players, stacks of up to 2 of one item, 2 slots each, up to 3 taros, which may be spent during a trade, crashes | 186632 | nothing is duplicated but for what trades forge, confirmations cover what is on the table |
| `trading_spend` | 2 players, 2 taros, spent at will | violated | `OffersAreCovered` fails, see [Findings](#findings) |
| `mobs` | 2 players; a leader with a follower, or a boss and what its death summons; fair steps | 190700 | states and targets agree however transitions nest, fights end |
| `possessions` | 2 characters, 2 inventory slots, one kind of item at a time, one mail each, crashes | 116892 | Possessions implements Ledger, riders have vehicles |
| `progress` | 3 levels, 4 errands and 2 nano missions of one or two tasks, two or three of them at a time, one race ring | 588097 | every reward comes once |
| `buddies` | 4 characters, lists of 2, dialogs between 2 of them at a time | 290656 | lists and tables agree |
| `gruntwork` | 1 administrator, 3 NPCs in the tables, 4 dynamic ids, 4 commands in all | 848900 | what is flushed comes back |
| `access` | 3 accounts of 3 levels, 2 sockets | 890440 | levels agree, nobody rises to the top |

The runs `trading`, `trading_spend`, `possessions`, `buddies` and `access` declare
symmetry of players, characters or accounts: their specifications treat the
permuted constants alike, and they check no liveness. Their counts are up to
symmetry. (In `possessions` the refinement is a property of single steps,
`[Next]_vars` of the ledger, whose state is mapped along with the permutation.)

Deadlock is checked except in `possessions` (all characters may have been
deleted), `buddies` (likewise) and `gruntwork` (the bounds on commands and ids may
be used up).

Each property of a passing run is known to notice something: `PROJECT.json` lists
for every one a changed definition under which TLC finds it violated.

## Findings

* **Taros on the table can be spent** (`trading_spend`). The check commented
  "famous glitch, begone" (`src/Trading.cpp:448`) is made when the amount is put on
  the table. `tradeConfirm()` subtracts with a floor of zero and credits in full,
  and no vendor, warp or email tests `isTrading`. `trading` shows that no more is
  created than what could not be collected at that point, and the theorem
  `OnlySpendingUncovers` that nothing but spending during a trade leads there.

Other places where the code does not do what a comment beside it says. The models
have the code's behaviour; no run is devoted to them:

* `src/PlayerManager.cpp:92`, "Use PlayerManager::sendPlayerTo() to actually teleport
  players": `transportWarpHandler()` calls the low-level helper under that comment
  (`src/Transport.cpp:173`), and asks neither where the player is nor, as
  `sendPlayerTo()` and `handleWarp()` do, "if the source instance has no more players in
  it". A lair that its last player leaves by S.C.A.M.P.E.R. stays, with all that is in it
  (`TransportWarp` of Chunking, the exception in `NoLairIsAbandoned`).
* `src/MobAI.cpp:512`, `745`, "notify all nearby players": `retreatStep()` and
  `deadStep()` set the coordinates of a mob without `updateNPCPosition()`, so those
  notified are the players around the chunk the mob fought in (`RetreatMob` and
  `RespawnMob` of Chunking change `at` and not `pos`). The index stays consistent.
* `src/Trading.cpp:147`, "prevent trading with a player already trading", tests the
  player whose offer is accepted, not the one who accepts. The acceptance may
  arrive after the acceptor's own offer was accepted by somebody else.
  `ConfirmedTermsStand` is therefore stated for two sides that agree on whom they
  trade with.
* `src/Nanos.cpp:221`, "unsummon nano if replaced": the active nano is compared
  with the one that was just written to the slot, not the one that was there
  (`NanoEquip` of Progress).
* `src/MobAI.cpp:477`, "group leaders still need to move despite being dead":
  `stepNPCPathing()` (`src/Transport.cpp:269`) walks roaming mobs only.

## Proofs

Each proof module has the same shape. Its head defines `IInv`, the invariant that
steps keep (`ChunkingProofs` has three, `Whole`, `Anchored` and `Fresh`); lemmas say
what the operators of the specification return and leave alone; one lemma per action
says that it keeps `IInv`; `NextIInv` splits on the disjuncts of `Next`; the
theorems follow. The only assumptions are the named ones of the specifications, on
their constants. `SessionsProofs` speaks of `Access` as an instance `A` over the
state of `Rights` and `LoginServer`. `IInv` was checked with TLC on the instance of
the runs before it was proved.

| module | theorems | for any |
|---|---|---|
| `ChunkingProofs` | `TypeIsInvariant`, `IndexAgreesAlways`, `LiveIffPopulatedAlways`, `PlayersCountedAlways`, `CachesFreshAlways`, `ClientsAgreeAlways`, `IndexIntactAlways`, `NoLairIsEverAbandoned`, `LairsAreAlwaysPreserved` | finite set of players, any NPCs, cells, maps and private instances |
| `SessionsProofs` | `TypeIsInvariant`, `AccountsPlayOnce`, `MemoryIsAlwaysNewest`, `NothingIsEverForgotten`, `TheBannedStayOut` | accounts, characters, sockets, keys and things to achieve |
| `SessionsProofs`, of `Access` | `AccessTypeIsInvariant`, `LevelsAlwaysAgree`, `ChiefAlwaysStands` | accounts, levels and sockets |
| `GroupsProofs` | `TypeIsInvariant`, `PointersAlwaysAgree`, `RostersAlwaysAgree`, `GroupsImplementParties` | players and Group objects |
| `TradingProofs` | `TypeIsInvariant`, `ConfirmedTermsAlwaysStand`, `ItemsAreNeverDuplicated`, `NothingIsEverDuplicated`, `OnlySpendingUncovers` | finite set of players, any slots, trade slots, kinds and amounts |
| `MobsProofs` | `TypeIsInvariant`, `StatesAlwaysAgree` | mobs, groups, players and retreats |
| `BuddiesProofs` | `TypeIsInvariant`, `ListsAlwaysAgree` | characters and slots |
| `PossessionsProofs` | `TypeIsInvariant`, `RidersAlwaysHaveVehicles`, `PossessionsImplementLedger`; with finitely many players also `ServerStaysSolvent` | players, places, attachments, prices and stacks |

No checked invariant but `TypeOK` of a few modules is inductive by itself. What
each `IInv` adds, and why:

* **Chunking.** `Whole` is the types, `Rooted` (entities stand in cells of maps, what is
  freed is nowhere, so that an id is reused from scratch), `Listed` (lists are the
  inverse of positions, outside `INVALID_CHUNK`), `Populated`, `Counted`, and that
  `INVALID_CHUNK` holds nobody. A warp breaks the last part halfway, when it puts the
  player there; so the proof carries `Sound`, which every chunk operation keeps, and
  `Passing`, that nobody but the one on its way is there. One lemma per operation of
  `Chunking.cpp` (`UntrackEffect`, `UpdateEntityChunkEffect`, `CreateInstanceEffect`,
  ...) says what it changes and what it leaves alone, one per action composes them.
  * `Anchored` adds that coordinates and chunk are of one instance, that who has no
    chunk stands on a public map and that mobs have their home where they are.
    `Inhabited` is that and `Peopled(J)`: each instance of the set J that holds anything
    holds a player. Every handler keeps it for any J, because those that move a player
    away ask with the instance it came from; `TransportWarp`, which does not ask, keeps
    it for the others. With J the single lair that is abandoned, that is
    `NoLairIsEverAbandoned`. `Spared`, for `LairsArePreserved`, relates two worlds:
    whoever was lost was in an instance that no player is in.
  * `Fresh` adds the caches: `ViewsFresh` (a view is the existing chunks around),
    `SeenFresh` (a mob counts the players around it, a freed one none) and `ToldFresh`
    (clients, corpses of mobs aside). The code maintains all three by differences of
    two views. `Crossed` says what a move does to counters and clients, as those it
    leaves minus those it finds; `SightingsAre` that a difference of sightings is a
    difference of cardinalities; `Exchanged` that this is what freshness asks for,
    because adjacency is symmetric. In a warp it is shown twice, with the view of the
    one on its way left open. `Gone` does the same for those that leave for good.
* **Access.** A good cookie has let nobody in (`CookiesAreFresh`), or its second use
  could pass `TypeOK`. Who plays has a row (`PlayersAreFound`), and the chief plays
  with the strongest level even after its row was deleted (`ChiefPlaysOnTop`): the
  commands compare with the level in the player, of which `LevelsAgree` says nothing
  once there is no row.
* **Sessions.** `EnterRead` and `EnterReread` read the database at two moments with
  the login thread in between. `FinishedEnter` says that what the keys, the handler
  and the players hold is finished, so that the login server cannot change it but
  by deleting it; `EntryIsClear` that at the second reading nobody plays the
  account, be the character deleted meanwhile; `PlayersAreGenuine` that a player is
  its character's or nobody; `SavesArePresent` that a periodic save has only
  players to do that are still there. `TheBannedStayOut` is an action property and
  follows from the type alone.
* **Groups.** `Agreed` and `Companioned` (no group of one) speak of the three fields
  as a handler changes them: inside `removeFromGroup()`, which calls itself, the
  first holds and the second does not. `GroupsImplementParties` shows that the set of
  member lists changes by a step of `Parties`, or not at all; since objects are
  identified by ids and parties by their members, it needs that two groups share
  nobody.
* **Trading.** `ConfirmedTermsStand` needs that who is offline has no window open
  (`GoneAreClosed`), or one could come back to a window that a partner still shows.
  * That nothing is duplicated is not inductive in the form in which it is checked,
    of the shard and of the database: saves are of one player at a time, and lead from
    one mixture of the two to another. So `Honest` says it of every `Have(S)`, with the
    players in S as they are in memory and the others as they were saved. Only
    `commitTrade()` may change two players at once, and `Bounded` shows why it writes
    both: the mixtures with one of them would hold too much.
  * `NotAlone` (nobody trades with itself) and `GoneAreIdle` (who is offline has
    nothing in memory) keep the two sides of an exchange apart. No item is forged,
    because it is looked for when it changes hands (`ItemsAreNeverDuplicated`). Taros
    are not, so `NothingIsEverDuplicated` allows for those that `tradeConfirm()` paid
    out and could not collect (`made.forged`). `OnlySpendingUncovers` tells where they
    come from: as long as everybody has what it put on the table the floor of
    `subtractCapped()` is harmless and none is forged, and of all steps only one in which
    a player spends during its trade can end that.
  * Sums are cardinalities of sets that tell equal things apart by where they are
    (`Together`); a change of one place changes the sum by the difference
    (`TogetherSplits` and its successors). `doTrade()` is a recursive function over the
    trade slots. That it is defined (`DealsExist`, `DoTradeDeals`) and fair
    (`DoTradeIsFair`) goes by induction, as a least counterexample that the order of the
    naturals has (`LeastExists`).
* **Mobs.** `Good` is the type, that who is near or fit is online, and the coherence
  of each mob. `Die` calls `Retreat`, which calls `Retreat` of the group; a tick of a
  buff may kill in the middle of a step. Each operator has a lemma with the
  conditions under which the others call it (`Fights`, `Alive`), in the order of
  their nesting.
* **Buddies.** Lists must be without doubles and free slots as new (`Tidy`), the tables
  without pairs that are friends and blocked (`TablesAgree`), and a request open only
  to somebody not blocked (`AskedAreWelcome`). That a list with a place for everybody
  is not full is the pigeonhole principle, on finite sets.
* **Possessions.** Items exist in bags, buy-back lists, saved bags and letters, and
  move between all of them, so the type of one needs that of the others (`Shaped`).
  `Login` fills a bag without looking at `riding`; so who is not in memory does not
  drive, and has nothing there that a login could add to (`GoneHaveNothing`).
  * `PossessionsImplementLedger` has a lemma per action (`...Books`) that names the
    step of the ledger it takes, and `LedgerSteps`, `PlayerSends`, `PlayerIsSaved` for
    what those steps ask. Wealth is a sum over places, the value of mail one over
    letters; a sum is the cardinality of a set with an element for each unit, and
    needs no induction: `TotalChanges` when one place changes, `TotalAdds` when every
    place is split, `TotalCarries` when what is worth something here comes from
    different places there. So `Filled` is the injection of slots into items, no
    two slots being the n-th free one (`OnesOwnNumber`), and `Packed` that of
    attachments into slots.
  * `ServerStaysSolvent` says what the ledger's promise comes to. A crash takes some
    players back to the tables and leaves others as they were written later, so
    `Solvent` is about every `Remains(S)`: the players in S as in memory, the others as
    saved. After a step of the ledger each mixture is, at most, another mixture of
    before (`SolventStep`): a save of p makes those without p what those with p were, a
    letter is paid for in both copies of its sender at once. That the set of players
    is finite (`PlayersAreFinite`) is needed to add them up.
  * That stacks split and merge at no gain needs that what does not stack is
    single (in `Goods`), or a vendor would pay for more than it charged: buying and
    buying back cost the price once where `stackSize` is one (`Vendors.cpp:49`, `200`).
    A client that asks for two of what does not stack is outside the model.
  * What an item is worth in other forms bears on it. That no item sells for more than
    it costs (`PricesAreSound`) is a fact about the tables of items, which are not in the
    repository. `OnlyItemsArePriced` says of the code that a price goes with the id: a
    booster keeps it when it gets a time limit, and `vendorSell()` refuses what was
    combined. A DX has an id of its own and becomes three items of others
    (`AllOnWorth`): what those are worth beyond it the game pays out.
* **Progress.** The functions call each other in the middle of their work, so
  `Sound` is what every one of them keeps at whatever point it is called, and
  `Good` adds what holds between two of them.
  * `Fresh`: the last task of a mission does not run once the mission is completed.
    `endTask()` gives the reward first, then takes the task from wherever the reward
    moved it, then marks the mission; and the nano that may come with it starts no
    mission that is completed. That is why it is paid for once (`Paid`).
  * `Counted` is `ItemsNeverOvershoot` with what each task that does not run would
    add when it starts; the invariant by itself says nothing of those.
  * `Fits`: the ordinary tasks that run, and the one that follows an ordinary task
    that has ended, leave a place. With `Tidy` (no task runs twice) the pigeonhole
    principle gives `NanoMissionsHaveAPlace`.
  * `Powered` is the invariant itself, with a stamina that is not negative. It must hold
    wherever the functions call each other, as `addNano()` is called at the end of a
    task: it puts the nano away that it gives before it resets its skill, owned or not.
  * The loops over the log and over the slots are recursive functions.
    `LoopRuns` says that one is defined and `LoopStays` that it keeps what each
    round keeps, by a least counterexample. `RowsDiffer` says that what is saved is
    loaded into different places.

What the proofs found in the models. `Progress` states three facts about the mission
tables that its instance had and no proof could do without; two tasks that end one
mission would pay for it twice. `OnePlayerPerAccount` counted the players of
deleted characters, which have no account, as players of one account; two of them
need three sockets, and the run has two. It is stated of accounts now, as the code
means it. The buy-back list of `Possessions` lost every item equal to the one bought
back, where `Vendors.cpp:178` erases the first; the run's list has one place. `Ledger`
asked for every taro that the game pays out, though `addCapped()` drops what a purse
does not hold; no purse overflowed in the run, and one does now. And `Ledger` let the
game take back what it had paid out, whoever had it by then (`Earn` with a negative
amount): the handlers refined it, but it did not imply `Solvent`.

Only model-checked:

* Gruntwork: what `flush()` writes and `init()` reads back is a fold over sequences of
  tables and paths, sorted by ids; that the two fit together for tables of every
  length is induction over data.
* Liveness: `DeadReturn`, `DeadAreReleased`, `FightsEnd`. The prover has neither
  ENABLED nor fairness.

## Fairness

* Chunking: weak fairness of `DespawnMob` and `RespawnMob`, because
  `Mob::step()` runs `deadStep()` whether or not the mob is in view and the NPC
  timer visits every mob; and of `RegrowEgg`, because `eggStep()` visits every egg
  each second. Nothing a player does is fair.
* Sessions: weak fairness of the steps that finish a handler; a handler runs to
  its end. Cleaning up a shard connection is strongly fair: between two steps of
  other handlers the poll loop gets to its end in every iteration, though the
  action is disabled while another handler is in the middle. Cleaning up a login
  session is weakly fair.
* Mobs: weak fairness of `StepRetreat` (`Mob::step()` lets a retreating mob step
  whether or not it is seen) and of `StepLost`, which is enabled while somebody sees
  the mob; `FightsEnd` promises the end of a fight only then. Nothing is assumed of
  the other steps, whose outcomes are choices.

## Bounds

* Chunking: three cells are the least number where two entities can be out of
  sight and a third sees both; two players are needed to tell a player's own view
  from another's; one cell suffices for instances, whose copying is by map. With
  two mobs, an egg and one other NPC the lair holds up to two NPCs and
  there are ids for both copies. `Summonable` bounds summoning to the ids there are.
* Groups: five players are one more than a group holds; two objects are as many
  groups as five players can form.
* Sessions: the interesting cases need two clients on one account, with two
  characters so that a duplicate login need not be of the same one; two keys let
  one be pruned or taken while the other waits; the tutorial's kit and one more
  token let one be saved while the other is not.
* Trading: two slots of stacks up to two are enough for splits, for a full
  inventory and for an exchange that fails at its second slot; three taros allow
  different amounts on both sides. `MadeItems` and `MadeMoney` bound what is handed
  out; taros are handed out only where no items are. `MaxForged` bounds what trades
  forge: a player spends nothing more while it trades once they have made that many
  taros, here one.
* Mobs: two players, so that a lost target has a successor; two mobs are a leader
  and a follower, or a boss and its second stage. `MaxAway` is one retreat step, so
  that a retreat is not over at once.
* Possessions: two slots make the inventory full after two items; stacks of two
  split, merge and overflow; there are eight stocks, one at a time: nothing, gumballs,
  weapons to combine, vehicles, a booster that sells and one that does not, a DX that
  costs two taros and whose boosters sell for one, and crates, in the drops and as what
  a code is worth. Everything else costs a taro and sells for one or none; a purse
  holds two. One mail per character, one place of the buy-back list (the second
  sale pushes out the first), a taro of postage for any attachment. `MaxEarned` bounds
  what the game pays out: with something to trade in one or two taros, so that a purse
  never overflows; with a DX three, to buy and use one; with nothing at all five, so
  that one does. Of the three boosters (`Boosters`) two are enough for a DX to become
  more than it was.
* Progress: of the four errands two are in a run together: a hunt of two kills with a
  timer that fails it, and a fetch in an instance that brings one of its two items
  along; or two that collect the same item, one of them with a timer that ends it
  whatever it has. The nano missions have two tasks and one, together or with two
  errands. The log has five places, so that it never fills. Fusion Matter limits of
  one and two make every gain reach one. `Named` and `Gifts` are the nanos that clients
  equip and tune and that administrators give, before they are owned too: only where
  the nano missions are the run's subject.
* Buddies: lists of two slots are too short for the three others. `MaxAsked` lets
  one pair at a time have open dialogs, in both directions.
* Gruntwork: a talker, a leader and its follower in the tables; the four
  dynamic ids are as many as the four commands of a run, before and after its restarts,
  can use. `MaxPoints`
  and `MaxPaths` bound paths to two keyframes and one path in the file.
* Access: three accounts let two conspire against the third; levels are the
  strongest, a moderator's and a player's.

## What is left out

* Monitor, chat, packets and structs, random numbers, start-up, settings and
  sandbox (see `PROJECT.json`): output, tables, arithmetic of distributions.
* Packet framing, encryption, the shutdown from a signal handler
  (`src/main.cpp:57`), race rankings, names that wait for approval, migrations of the
  database: I/O, or no state that another part reads.
* Numbers: levels of damage, drop weights, prices, speeds. Text. The
  interpolation of paths and the skyway queues.
* The effects of eggs, buffs of players, boosters; fights between players.

What the models exclude by an assumption on their inputs, where the code would do
something else, is named in each module's section. Beyond those the following were
met in the code and no module covers them: `Mob` transitions by the command that
toggles the AI (`src/CustomCommands.cpp:402`), which sends dead mobs into a
retreat; the target of a mob is a pointer to a socket, whose address a new socket
may get; `flush()` truncates its file before it writes (`StopInFlush` has it, and
`EditsSurvive` speaks of a flush that ends).
