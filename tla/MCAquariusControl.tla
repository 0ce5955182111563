----------------------------- MODULE MCAquariusControl -----------------------------
(* Instances of AquariusControl: one or two channels stand for the six, and one      *)
(* validated profile for the one this release lists.                                 *)
EXTENDS AquariusControl

OneChannel == {"A"}
Off == [A |-> 0]
Dim == [A |-> 1]
Full == [A |-> 2]

S(mode, mix) == [mode |-> mode, profile |-> "amled", mix |-> mix]

PowerCommands ==
  <<{[kind |-> "off"]}, {[kind |-> "off"], [kind |-> "on"]}, {[kind |-> "on"]}>>
PowerLamps == {S("manual", Dim)}
PowerOthers == {S("manual", Full), S("shutdown", Off)}
PowerOwn == {Off}
NewStore == {EmptyRecord}

\* Two channels, every kind of command, and nobody else at the lamp.
TwoChannels == {"A", "B"}
Dark == [A |-> 0, B |-> 0]
LitA == [A |-> 1, B |-> 0]
LitB == [A |-> 0, B |-> 1]

Slide(channel) == [kind |-> "channel", channel |-> channel, level |-> 1]
OtherCommands ==
  {[kind |-> "mode", mode |-> "manual"], [kind |-> "mode", mode |-> "automatic"],
   [kind |-> "colour", mix |-> LitB],
   [kind |-> "dim"], [kind |-> "off"], [kind |-> "on"], [kind |-> "resume"]}
ThreeOverlapping ==
  <<OtherCommands \union {Slide("A")}, OtherCommands \union {Slide("B")}, {Slide("A")}>>
AloneLamps == {S("manual", LitA), S("automatic", LitA), S("shutdown", Dark)}
AloneOwn == {Dark, LitA}

LiveCommands ==
  <<{[kind |-> "off"]}, {[kind |-> "on"], [kind |-> "channel", channel |-> "A", level |-> 1]}>>

\* A store written by another release.
AnyStore == {Unreadable, EmptyRecord}
=============================================================================
