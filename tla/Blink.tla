------------------------------- MODULE Blink --------------------------------
(***************************************************************************)
(* The blinking characters of fish: the list of blink.S, whose nodes come  *)
(* from the array blink_array of fish.c, the ioctls on it and the tasklet  *)
(* that fish runs once per tick of the RTC.  What an ioctl returns is left *)
(* out, since fish does not look at it, and so is RTC_FIND, which only     *)
(* copies a node out.                                                      *)
(*                                                                         *)
(* mp1_malloc takes a node for free if its location is 0, and mp1_free     *)
(* clears it; nothing else tells a node of the list from a free one.       *)
(***************************************************************************)
EXTENDS Integers, FiniteSetsExt

CONSTANTS
  POOL,       \* the length of blink_array: 80 * 25
  CELLS,      \* the cells of the screen: 80 * 25
  Struct,     \* the structures that are passed to RTC_ADD
  MaxSync     \* bound: the calls of RTC_SYNC; fish makes one

\* fish.c:125 adds an offset of 40, so no location is 0; the lengths are 6, 7
\* and 15, far from the sign bit that the comparison in the tasklet looks at.
ASSUME StructAssumption ==
  /\ POOL \in Nat \ {0} /\ CELLS \in Nat \ {0} /\ MaxSync \in Nat
  /\ \A s \in Struct : /\ s.location \in Nat \ {0}
                       /\ s.on_length \in Nat /\ s.off_length \in Nat

NULL == 0
BLANK == " "
Node == 1..POOL

VARIABLES
  blink_array,
  mp1_list_head,
  screen,       \* the characters at vmem_base_addr
  syncs,        \* how often RTC_SYNC was called
  drawn         \* per cell: the node that the tasklet or RTC_ADD drew there
                \* last, or NULL once RTC_SYNC drew there or the node is gone

blink_vars == <<blink_array, mp1_list_head, screen, syncs, drawn>>

Zeroed ==
  [location |-> 0, on_char |-> "0", off_char |-> "0", on_length |-> 0,
   off_length |-> 0, countdown |-> 0, status |-> 0, next |-> NULL]

-----------------------------------------------------------------------------
\* The n-th node that following NEXT from the head meets, counted from 0, or
\* NULL behind the end.
Walk(array, head) ==
  LET node[n \in 0..POOL] ==
        IF n = 0 THEN head
        ELSE IF node[n - 1] = NULL THEN NULL ELSE array[node[n - 1]].next
  IN node
Nth == Walk(blink_array, mp1_list_head)
Listed == {n \in 0..POOL : Nth[n] # NULL}
InList(node) == \E n \in Listed : Nth[n] = node

\* The first node of the list with the location, or NULL.
mp1_find_helper(loc) ==
  LET hits == {n \in Listed : blink_array[Nth[n]].location = loc}
  IN IF hits = {} THEN NULL ELSE Nth[Min(hits)]

mp1_malloc ==
  LET free == {i \in Node : blink_array[i].location = 0}
  IN IF free = {} THEN NULL ELSE CHOOSE i \in free : \A j \in free : i <= j

-----------------------------------------------------------------------------
\* RTC_ADD: a copy of the structure, switched on, becomes the head.
mp1_ioctl_add(s) ==
  LET edx == mp1_malloc
  IN IF s.location >= CELLS \/ edx = NULL
       THEN UNCHANGED <<blink_array, mp1_list_head, screen, drawn>>
       ELSE /\ blink_array' = [blink_array EXCEPT ![edx] =
                 [location |-> s.location, on_char |-> s.on_char, off_char |-> s.off_char,
                  on_length |-> s.on_length, off_length |-> s.off_length,
                  countdown |-> s.on_length, status |-> 1, next |-> mp1_list_head]]
            /\ mp1_list_head' = edx
            /\ screen' = [screen EXCEPT ![s.location] = s.on_char]
            /\ drawn' = [drawn EXCEPT ![s.location] = edx]

\* found_prev: the pointer to the node, in the head or in a node, skips it.
\* UnlinkHead takes the pointer to be the head.
UnlinkHead(node) ==
  /\ mp1_list_head' = blink_array[node].next
  /\ blink_array' = [blink_array EXCEPT ![node] = Zeroed]
Unlink(node) ==
  /\ mp1_list_head' = IF mp1_list_head = node THEN blink_array[node].next ELSE mp1_list_head
  /\ blink_array' =
       [i \in Node |->
          CASE i = node -> Zeroed
            [] i # node /\ InList(i) /\ blink_array[i].next = node ->
                 [blink_array[i] EXCEPT !.next = blink_array[node].next]
            [] OTHER -> blink_array[i]]

\* RTC_REMOVE, with mp1_free.
mp1_ioctl_remove(loc) ==
  LET node == mp1_find_helper(loc)
  IN IF node = NULL
       THEN UNCHANGED <<blink_array, mp1_list_head, drawn>>
       ELSE /\ Unlink(node)
            /\ drawn' = [drawn EXCEPT ![loc] = IF @ = node THEN NULL ELSE @]

\* RTC_SYNC: the second takes over the rhythm of the first.  The cmovl that
\* should choose the character tests "less", which testb never leaves set, so
\* the off character is drawn whatever the status is.
mp1_ioctl_sync(from, to) ==
  LET esi == mp1_find_helper(from)
      edi == mp1_find_helper(to)
  IN IF esi = NULL \/ edi = NULL
       THEN UNCHANGED <<blink_array, screen, drawn>>
       ELSE LET src == blink_array[esi]
            IN /\ blink_array' =
                    [blink_array EXCEPT ![edi].on_length = src.on_length,
                                        ![edi].off_length = src.off_length,
                                        ![edi].countdown = src.countdown,
                                        ![edi].status = src.status]
               /\ screen' = [screen EXCEPT ![to] = blink_array[edi].off_char]
               /\ drawn' = [drawn EXCEPT ![to] = NULL]

-----------------------------------------------------------------------------
\* The body of tasklet_loop for one node: the count goes down, and at 0 the
\* node is switched over.  SwitchedStuck forgets the xorw, CountedUp the decw.
Due(b) == b.countdown - 1 <= 0
SwitchedStuck(b) ==
  [b EXCEPT !.countdown = IF b.status = 1 THEN b.off_length ELSE b.on_length]
Switched(b) ==
  [b EXCEPT !.countdown = IF b.status = 1 THEN b.off_length ELSE b.on_length,
            !.status = 1 - @]
CountedUp(b) == b
Counted(b) == [b EXCEPT !.countdown = @ - 1]
Ticked(b) == IF Due(b) THEN Switched(b) ELSE Counted(b)
CharAfter(b) == IF b.status = 1 THEN b.off_char ELSE b.on_char

\* The nodes draw in the order of the list: the last at a cell stays.
DueAt(c) ==
  {n \in Listed : Due(blink_array[Nth[n]]) /\ blink_array[Nth[n]].location = c}
LastDue(c) == Nth[Max(DueAt(c))]
mp1_rtc_tasklet ==
  /\ UNCHANGED mp1_list_head
  /\ blink_array' = [i \in Node |-> IF InList(i) THEN Ticked(blink_array[i]) ELSE blink_array[i]]
  /\ drawn' = [c \in DOMAIN drawn |-> IF DueAt(c) # {} THEN LastDue(c) ELSE drawn[c]]
  /\ screen' = [c \in DOMAIN screen |-> IF DueAt(c) # {} THEN CharAfter(blink_array[LastDue(c)])
                                                         ELSE screen[c]]

-----------------------------------------------------------------------------
BlinkInit ==
  /\ blink_array = [i \in Node |-> Zeroed]
  /\ mp1_list_head = NULL
  /\ screen = [c \in 0..(CELLS - 1) |-> BLANK]
  /\ syncs = 0
  /\ drawn = [c \in 0..(CELLS - 1) |-> NULL]

Location == {s.location : s \in Struct}

mp1_ioctl ==
  \/ \E s \in Struct : mp1_ioctl_add(s) /\ UNCHANGED syncs
  \/ \E loc \in Location : mp1_ioctl_remove(loc) /\ UNCHANGED <<screen, syncs>>
  \/ /\ syncs < MaxSync /\ syncs' = syncs + 1
     /\ \E from, to \in Location : mp1_ioctl_sync(from, to)
     /\ UNCHANGED mp1_list_head

Tick == UNCHANGED syncs /\ mp1_rtc_tasklet

BlinkNext == mp1_ioctl \/ Tick

-----------------------------------------------------------------------------
(***************************************************************************)
(* Properties.                                                             *)
(***************************************************************************)

\* Following NEXT from the head meets every node that is not free, once each,
\* and ends: whatever was added and removed, no node is lost, none is handed
\* out twice, and the loops of blink.S terminate.
ListIntact ==
  /\ Nth[POOL] = NULL
  /\ \A m, n \in Listed : Nth[m] = Nth[n] => m = n
  /\ {Nth[n] : n \in Listed} = {i \in Node : blink_array[i].location # 0}

\* Where the tasklet or RTC_ADD drew last, the screen shows the character of
\* the node's status; a node that is gone, or whose memory has been given to
\* another character, leaves no claim on its cell.
ShownAgrees ==
  \A c \in DOMAIN drawn : drawn[c] # NULL =>
    LET b == blink_array[drawn[c]]
    IN b.location = c /\ screen[c] = IF b.status = 1 THEN b.on_char ELSE b.off_char

\* A character that is on goes off, unless it is removed: nodes added in front
\* of it and removed around it do not keep the tasklet from reaching it.
KeepsBlinking ==
  \A i \in Node :
    (blink_array[i].status = 1) ~> (blink_array[i].status = 0)
=============================================================================
