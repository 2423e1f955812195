------------------------------- MODULE LruStore -------------------------------
(***************************************************************************)
(* The personal cache in RAM and its image in flash: ime_task learns the   *)
(* words that the user commits, decides when to save them, and loads them  *)
(* at boot.  A save erases the only slot and then programs it page by      *)
(* page; the heap may refuse the buffer for it, and the power may fail     *)
(* between any two steps.                                                  *)
(*                                                                         *)
(* The unit of time is the time-out of the queue (20 ms); a save takes no  *)
(* time.  An erase, and the programming of a page, happens whole or not at *)
(* all.                                                                    *)
(***************************************************************************)
EXTENDS LruCache

CONSTANTS
  Words,       (* The words that the dictionary offers: keys, hints, text,  *)
               (* bytes.                                                    *)
  N,           (* kLruSaveEveryNCommits (50)                                *)
  IdleTime,    (* kLruSaveIdleMs (30 s)                                     *)
  MaxNow,      (* Bound: a word is learnt before this time of its boot.     *)
  MaxMishaps   (* Bound: power failures, and saves in a row without buffer. *)

\* What upsert:107-109 accepts: up to 8 keys, and a text that fits utf8.
ASSUME LruStoreAssumption ==
  /\ Words \subseteq [keys : Seq(Nat), hints : Seq(Nat), text : STRING, bytes : 1 .. 24]
  /\ \A w \in Words : Len(w.keys) \in 1 .. 8 /\ Len(w.hints) = Len(w.keys)
  /\ N \in Nat \ {0} /\ IdleTime \in Nat \ {0}
  /\ MaxNow \in Nat /\ MaxMishaps \in Nat

VARIABLES
  pc,        (* ime_task: "loop", "save" (lru_persist_save entered), or     *)
             (* "program" (between erase and last page).                    *)
  cache,     (* entries_ and count_                                         *)
  now,       (* now_ms(), up to MaxNow.                                     *)
  mode,      (* ime_view_mode_byte(): 0 SmartZh, 1 SmartEn, 2 Direct.       *)
  pending,   (* g_commit_count - last_committed_count                       *)
  dirty,     (* g_lru_save_dirty                                            *)
  idle,      (* now - last_commit_ms, up to IdleTime.                       *)
  lastMode,  (* last_mode_byte                                              *)
  image, programmed,  (* The flash: a serialised cache, and how many of its *)
             (* pages have been programmed since the slot was erased.       *)
  boots,     (* How often the power has failed.                             *)
  unsaved,   (* Commits of this boot since the last save that succeeded.    *)
  fails,     (* Saves that failed since then.                               *)
  latest     (* The word learnt last in this boot, or NoWord.               *)

loopVars == <<mode, pending, dirty, idle, lastMode>>
flashVars == <<image, programmed>>
ghostVars == <<unsaved, fails, latest>>
vars == <<pc, cache, now, loopVars, flashVars, boots, ghostVars>>

NoWord == [keys |-> <<>>, hints |-> <<>>, text |-> "", bytes |-> 0]

TypeOK ==
  /\ pc \in {"loop", "save", "program"}
  /\ \A s \in {cache, image} :
       /\ Len(s) <= Cap
       /\ \A i \in 1 .. Len(s) : /\ s[i].text \in {w.text : w \in Words} \cup {TornText}
                                 /\ s[i].stamp \in 0 .. MaxNow \cup {MaxStamp}
                                 /\ s[i].uses \in 1 .. MaxUses
       /\ \A i, j \in 1 .. Len(s) :
            [s[i] EXCEPT !.stamp = 0, !.uses = 0] = [s[j] EXCEPT !.stamp = 0, !.uses = 0]
            => i = j \/ s[i].text = TornText
  /\ now \in 0 .. MaxNow /\ idle \in 0 .. IdleTime
  /\ {mode, lastMode} \subseteq 0 .. 2
  /\ pending \in 0 .. N + 1 /\ dirty \in BOOLEAN
  /\ programmed \in 0 .. Pages
  /\ boots \in 0 .. MaxMishaps /\ fails \in 0 .. MaxMishaps /\ unsaved \in Nat
  /\ latest \in Words \cup {NoWord}

\* The device leaves the factory with an erased slot: programmed = 0.
Init ==
  /\ pc = "loop"
  /\ cache = <<>> /\ image = <<>> /\ programmed = 0
  /\ now = 0 /\ mode = 0 /\ pending = 0 /\ dirty = FALSE /\ idle = 0 /\ lastMode = 0
  /\ boots = 0 /\ unsaved = 0 /\ fails = 0 /\ latest = NoWord

-----------------------------------------------------------------------------
(* The throttle at the end of each turn of the loop, after n commits in    *)
(* time t: last_commit_ms is set whenever commits are pending.             *)

IdleAfter(n, t) == IF pending + n # 0 THEN 0 ELSE Min({idle + t, IdleTime})

CommitTripwire(n) == pending + n >= N

\* Mutant: the turn forgets the mode it has seen before.
NoModeTripwire == FALSE

ModeTripwire == mode' # lastMode

IdleTripwire == dirty' /\ idle' >= IdleTime

Throttle(n, t) ==
  /\ now' = Min({now + t, MaxNow})
  /\ pending' = pending + n
  /\ dirty' = (dirty \/ n > 0)
  /\ idle' = IdleAfter(n, t)
  /\ unsaved' = unsaved + n
  /\ pc' = IF CommitTripwire(n) \/ ModeTripwire \/ IdleTripwire THEN "save" ELSE "loop"
  /\ UNCHANGED <<lastMode, flashVars, boots, fails>>

\* The queue stays empty until the time-out.
TimeOut ==
  /\ pc = "loop"
  /\ UNCHANGED <<cache, mode, latest>>
  /\ Throttle(0, 1)

CycleMode(cycles) == mode' = IF cycles THEN (mode + 1) % 3 ELSE mode

\* A key commits a candidate in SmartZh, and may be MODE, which commits before it cycles.
LearnWord(w, cycles, t) ==
  /\ pc = "loop"
  /\ mode = 0
  /\ now < MaxNow
  /\ CycleMode(cycles)
  /\ Throttle(1, t)
  /\ cache' = Upsert(cache, w, now')
  /\ latest' = w

\* A key that teaches nothing: no commit, a symbol, a letter, or in SmartEn a word with a
\* space before it.
OtherKey(n, cycles, t) ==
  /\ pc = "loop"
  /\ n = 2 => mode = 1
  /\ n = 0 => cycles
  /\ CycleMode(cycles)
  /\ Throttle(n, t)
  /\ UNCHANGED <<cache, latest>>

KeyEvent ==
  \E cycles \in BOOLEAN, t \in 0 .. 1 :
    \/ \E w \in Words : LearnWord(w, cycles, t)
    \/ \E n \in 0 .. 2 : OtherKey(n, cycles, t)

-----------------------------------------------------------------------------
(* lru_persist_save, and the assignments after it, which ignore its result *)

SaveReturns ==
  /\ pc' = "loop"
  /\ pending' = 0
  /\ lastMode' = mode
  /\ dirty' = FALSE

NoBuffer ==
  /\ pc = "save"
  /\ boots + fails < MaxMishaps
  /\ fails' = fails + 1
  /\ SaveReturns
  /\ UNCHANGED <<cache, now, mode, idle, flashVars, boots, unsaved, latest>>

Erase ==
  /\ pc = "save"
  /\ image' = cache
  /\ programmed' = 0
  /\ pc' = "program"
  /\ UNCHANGED <<cache, now, loopVars, boots, ghostVars>>

ProgramPage ==
  /\ pc = "program"
  /\ programmed' = programmed + 1
  /\ IF programmed' < Pages
     THEN UNCHANGED <<pc, loopVars, unsaved, fails>>
     ELSE SaveReturns /\ unsaved' = 0 /\ fails' = 0 /\ UNCHANGED <<mode, idle>>
  /\ UNCHANGED <<cache, now, image, boots, latest>>

ImeTask == TimeOut \/ KeyEvent \/ NoBuffer \/ Erase \/ ProgramPage

\* The power fails, and comes back: ime_task_start loads what the slot holds.
Reboot ==
  /\ boots + fails < MaxMishaps
  /\ boots' = boots + 1
  /\ cache' = Deserialize(image, PageSize * programmed)
  /\ pc' = "loop"
  /\ now' = 0 /\ mode' = 0 /\ pending' = 0 /\ dirty' = FALSE /\ idle' = 0 /\ lastMode' = 0
  /\ unsaved' = 0 /\ fails' = 0 /\ latest' = NoWord
  /\ UNCHANGED flashVars

Next == ImeTask \/ Reboot

\* ime_task runs at the highest priority, its wait has a time-out, and the flash operations
\* end; that heap becomes free is not assumed.
Spec == Init /\ [][Next]_vars /\ WF_vars(TimeOut \/ Erase \/ ProgramPage)

-----------------------------------------------------------------------------

\* Between two turns of the loop fewer than N commits are unsaved, and at most N + 1 more for
\* each save that got no buffer: a failed save (lru_persist.cpp:79) counts as one in
\* ime_task_fn:279, so that its commits wait for the next tripwire, but never longer.
SavesKeepUp == pc = "loop" => unsaved <= fails * (N + 1) + N - 1

\* What comes back at boot (deserialize:224-249) is nothing, or every word of the interrupted
\* save with at most its last one damaged; and all of it after a completed save.
RestoresAllButLast ==
  [][boots' # boots =>
       /\ cache' = <<>> \/ (Len(cache') = Len(image) /\ Front(cache') = Front(image))
       /\ programmed = Pages => cache' = image]_vars

\* When upsert:124 makes room, it never forgets a word while it keeps another one that was
\* used both less recently and less often, as the user has seen it: within the first boot.
ForgetsTheWeakest ==
  [][(boots' = 0 /\ cache # cache') =>
       \A i \in 1 .. Len(cache), j \in 1 .. Len(cache) :
         (cache'[i].text # cache[i].text /\ j # i) =>
           ~(cache[j].stamp < cache[i].stamp /\ cache[j].uses < cache[i].uses)]_vars

\* The word learnt last is the first suggestion (lookup:167-182) when its keys are typed
\* again, unless another one was learnt in the same millisecond; again within the first boot,
\* for a stamp of an earlier boot may be higher.
LatestIsFirst ==
  (boots = 0 /\ latest # NoWord) =>
    LET suggested == Lookup(cache, latest.keys, latest.hints)
    IN \E i \in ExactAt(cache, latest) :
         suggested # <<>> /\ (\/ suggested[1].text = latest.text
                             \/ suggested[1].stamp = cache[i].stamp)

\* lru_persist.cpp, lru_cache.cpp: cache and slot are sound, the saves keep up and the
\* latest word comes first.
StoreInv == TypeOK /\ SavesKeepUp /\ LatestIsFirst

\* "mode cycled (user made an explicit session change)" (ime_task.cpp:250): the words
\* committed before are saved, unless there is no buffer.
ModeChangeSaves == (mode # lastMode /\ unsaved > 0) ~> (unsaved = 0 \/ fails > 0)

\* "after 30 s of idle with pending dirty state" (ime_task.cpp:200): when the user stops
\* typing, what he has committed is saved in the end, unless there is no buffer.  This does
\* not hold: IdleAfter is 0 as long as something is dirty.
IdleSaves == unsaved > 0 ~> (unsaved = 0 \/ fails > 0)
=============================================================================
