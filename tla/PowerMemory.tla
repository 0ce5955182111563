-------------------------------- MODULE PowerMemory --------------------------------
(***************************************************************************)
(* What the Aquarius integration remembers about a lamp across an Off      *)
(* (custom_components/aquarius_plant_led/state_store.py): the last nonzero  *)
(* Manual mix, and the origin of the current Off.  The operators are the   *)
(* pure part: which record an observation, an Off intent and an Off         *)
(* confirmation write, and what an On may restore from a record.           *)
(*                                                                         *)
(* A profile stands for the raw controller, version and count bytes.  The  *)
(* revision that a save draws is left out: it only lets the save tell its   *)
(* own write from an older one, which AquariusControl says by the outcome. *)
(***************************************************************************)
EXTENDS Naturals

CONSTANTS
  Channels,       \* the six channels A to F
  Levels,         \* percentages
  Profiles,       \* raw profiles a controller may report
  WriteProfiles,  \* validated for channel and mode writes
  PowerProfiles,  \* validated for software Off and On as well
  None

ASSUME LampAssumption ==
  /\ 0 \in Levels /\ Levels \subseteq Nat
  /\ PowerProfiles \subseteq WriteProfiles /\ WriteProfiles \subseteq Profiles

Mixes == [Channels -> Levels]
Zero == [c \in Channels |-> 0]

\* The modes the protocol knows, and "other" for every other raw value.
Modes == {"automatic", "manual", "shutdown", "other"}
Controlled == {"automatic", "manual"}

\* One complete reading: system reply and channel vector.
States == [mode : Modes, profile : Profiles, mix : Mixes]

Manuals == [profile : Profiles, mix : Mixes \ {Zero}]

Origins ==
  [profile : Profiles, mode : Controlled, manual : (Mixes \ {Zero}) \union {None},
   confirmed : BOOLEAN, off : Mixes \union {None}]

Records == [manual : Manuals \union {None}, origin : Origins \union {None}]

EmptyRecord == [manual |-> None, origin |-> None]

ASSUME NoMemoryAssumption ==
  None \notin Mixes /\ None \notin States /\ None \notin Manuals /\ None \notin Origins

-----------------------------------------------------------------------------

\* Faulty Observed: only a running program ends an Off.
AutomaticEndsOff(record, state) ==
  [manual |-> IF /\ state.profile \in WriteProfiles
                 /\ state.mode = "manual"
                 /\ state.mix # Zero
                THEN [profile |-> state.profile, mix |-> state.mix]
                ELSE record.manual,
   origin |-> IF state.mode = "automatic" THEN None ELSE record.origin]

\* A visible nonzero Manual mix is remembered; seeing the lamp On ends an Off.
Observed(record, state) ==
  [manual |-> IF /\ state.profile \in WriteProfiles
                 /\ state.mode = "manual"
                 /\ state.mix # Zero
                THEN [profile |-> state.profile, mix |-> state.mix]
                ELSE record.manual,
   origin |-> IF state.mode \in Controlled THEN None ELSE record.origin]

KnownMix(record, state) ==
  IF record.manual # None /\ record.manual.profile = state.profile
    THEN record.manual.mix
    ELSE None

\* The intent an Off must save before it may send anything.
Intended(record, state) ==
  LET seen == Observed(record, state)
  IN [seen EXCEPT !.origin =
        [profile |-> state.profile, mode |-> state.mode,
         manual |-> KnownMix(seen, state), confirmed |-> FALSE, off |-> None]]

CanConfirm(record, state) ==
  /\ record.origin # None
  /\ record.origin.profile = state.profile
  /\ state.mode = "shutdown"

Confirmed(record, state) ==
  [record EXCEPT !.origin.confirmed = TRUE, !.origin.off = state.mix]

\* Faulty ManualRestore: an Off that was never confirmed is trusted as well.
UnconfirmedRestore(record, error, state) ==
  LET origin == record.origin
  IN IF /\ ~error
        /\ origin # None
        /\ origin.profile = state.profile
        /\ origin.mode = "manual"
       THEN origin.manual
       ELSE None

\* The mix an On restores, or None: then it resumes the stored schedule.
ManualRestore(record, error, state) ==
  LET origin == record.origin
  IN IF /\ ~error
        /\ origin # None
        /\ origin.confirmed
        /\ origin.profile = state.profile
        /\ origin.off = state.mix
        /\ origin.mode = "manual"
       THEN origin.manual
       ELSE None

\* What _validate accepts: a confirmed origin knows the vector it was Off with,
\* and only a confirmed one does.
WellFormed(record) ==
  /\ record \in Records
  /\ record.origin # None => (record.origin.confirmed <=> record.origin.off # None)
=============================================================================
