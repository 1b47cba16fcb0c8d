----------------------------- MODULE TopkRemap -----------------------------
(***************************************************************************)
(* The kernel that turns a row of global top-k token ids into a prefix of  *)
(* gathered-cache slots.  The row is cut into tiles that run concurrently: *)
(* a tile keeps the lanes whose token is valid, reserves that many columns *)
(* with one atomic addition to the row's count, and stores its slots there.*)
(* The output row and the count are buffers that every layer reuses.       *)
(***************************************************************************)
EXTENDS Integers, FiniteSets

CONSTANTS Tiles,      \* tiles of the row
          Width,      \* lanes of a tile (BLOCK_N)
          Slots,      \* slots of the gathered cache
          None        \* -1: no token in the input, no slot in the output

ASSUME TilesAssumption == IsFiniteSet(Tiles)
ASSUME WidthAssumption == Width \in Nat
ASSUME NoneAssumption == None \notin Slots

VARIABLES pick,     \* per tile and lane: the slot its token maps to, or None
          tile,     \* per tile: idle, load or store
          base,     \* per tile: the first column it reserved
          stored,   \* per tile: lanes it has stored
          out,      \* the output row
          count     \* the row's valid count

remapVars == <<pick, tile, base, stored, out, count>>

TileLanes == 0 .. Width - 1
RowColumns == 0 .. Cardinality(Tiles) * Width - 1

\* Lanes of a row or a tile that hold a valid token.
ValidLanes(row) == {l \in TileLanes : row[l] # None}

\* A lane's place among the valid lanes of its tile.
Offset(row, lane) == Cardinality({l \in ValidLanes(row) : l < lane})

\* The indexer selects a token once, so no slot occurs twice.
Selections ==
  {p \in [Tiles -> [TileLanes -> Slots \cup {None}]] :
     \A t, u \in Tiles : \A l, m \in TileLanes :
       p[t][l] = p[u][m] /\ p[t][l] # None => t = u /\ l = m}

RemapTypeOK ==
  /\ pick \in Selections
  /\ tile \in [Tiles -> {"idle", "load", "store"}]
  /\ base \in [Tiles -> Nat]
  /\ stored \in [Tiles -> SUBSET TileLanes]
  /\ \A t \in Tiles : stored[t] \subseteq ValidLanes(pick[t])
  /\ out \in [RowColumns -> Slots \cup {None}]
  /\ count \in 0 .. Cardinality(Tiles) * Width

\* Buffers are allocated without a value.
RemapInit ==
  /\ pick = [t \in Tiles |-> [l \in TileLanes |-> None]]
  /\ tile = [t \in Tiles |-> "idle"]
  /\ base = [t \in Tiles |-> 0]
  /\ stored = [t \in Tiles |-> {}]
  /\ out \in [RowColumns -> Slots \cup {None}]
  /\ count \in 0 .. Cardinality(Tiles) * Width

TileDone(t) == tile[t] = "store" /\ stored[t] = ValidLanes(pick[t])
KernelDone == \A t \in Tiles : TileDone(t)

\* A variant that leaves the row as the layer before filled it.
LaunchUnfilled ==
  /\ KernelDone \/ \A t \in Tiles : tile[t] = "idle"
  /\ pick' \in Selections
  /\ tile' = [t \in Tiles |-> "load"]
  /\ stored' = [t \in Tiles |-> {}]
  /\ count' = 0
  /\ UNCHANGED <<base, out>>

\* A variant that adds to the count of the layer before.
LaunchUncounted ==
  /\ KernelDone \/ \A t \in Tiles : tile[t] = "idle"
  /\ pick' \in Selections
  /\ tile' = [t \in Tiles |-> "load"]
  /\ stored' = [t \in Tiles |-> {}]
  /\ out' = [c \in RowColumns |-> None]
  /\ UNCHANGED <<base, count>>

\* The stream orders a launch after the one before it, and the fill of the
\* row and the reset of the count before its tiles.
Launch ==
  /\ KernelDone \/ \A t \in Tiles : tile[t] = "idle"
  /\ pick' \in Selections
  /\ tile' = [t \in Tiles |-> "load"]
  /\ stored' = [t \in Tiles |-> {}]
  /\ out' = [c \in RowColumns |-> None]
  /\ count' = 0
  /\ UNCHANGED base

Reserve(t) ==
  /\ tile[t] = "load"
  /\ base' = [base EXCEPT ![t] = count]
  /\ count' = count + Cardinality(ValidLanes(pick[t]))
  /\ tile' = [tile EXCEPT ![t] = "store"]
  /\ UNCHANGED <<pick, stored, out>>

Store(t, lane) ==
  /\ tile[t] = "store"
  /\ lane \in ValidLanes(pick[t]) \ stored[t]
  /\ out' = [out EXCEPT ![base[t] + Offset(pick[t], lane)] = pick[t][lane]]
  /\ stored' = [stored EXCEPT ![t] = @ \cup {lane}]
  /\ UNCHANGED <<pick, tile, base, count>>

RemapNext ==
  \/ Launch
  \/ \E t \in Tiles : Reserve(t)
  \/ \E t \in Tiles, lane \in TileLanes : Store(t, lane)

RemapSpec == RemapInit /\ [][RemapNext]_remapVars

-----------------------------------------------------------------------------
(***************************************************************************)
(* Properties.                                                             *)
(***************************************************************************)

\* The slots of the row's valid tokens.
Selected == UNION {{pick[t][l] : l \in ValidLanes(pick[t])} : t \in Tiles}

\* When all tiles are done the row's first count columns hold exactly the
\* slots of the valid tokens, however the tiles raced, and the columns after
\* them hold none: the attention kernel reads the prefix and stops there.
PrefixExact ==
  KernelDone =>
    /\ {out[c] : c \in {c \in RowColumns : c < count}} = Selected
    /\ \A c \in RowColumns : c >= count => out[c] = None

\* No tile stores over a slot of this launch: once a column holds one it keeps
\* it until the next launch clears the row.
NothingOverwritten ==
  [][Launch \/ \A c \in RowColumns : out[c] # None => out'[c] = out[c]]_remapVars
=============================================================================
