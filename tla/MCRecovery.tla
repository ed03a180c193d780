----------------------------- MODULE MCRecovery -----------------------------
EXTENDS Recovery

CONSTANTS n1, n2

Call(tool, does, note, path, late) ==
  [tool |-> tool, does |-> does, note |-> note, path |-> path, late |-> late]

Ask       == Call("ask", "nothing", n1, "absolute", "no")
Work      == Call("other", "nothing", n1, "absolute", "no")
LateWork  == Call("other", "nothing", n1, "absolute", "yes")
Write     == Call("notes", "full", n1, "absolute", "no")
Extend    == Call("notes", "partial", n1, "absolute", "no")
Clear     == Call("notes", "clear", n1, "absolute", "no")
Read      == Call("notes", "read", n1, "absolute", "no")
Other     == Call("notes", "full", n2, "absolute", "no")
Relative  == Call("file", "full", n1, "relative", "no")
Patch     == Call("patch", "partial", n1, "absolute", "no")
Delete    == Call("patch", "delete", n1, "absolute", "no")
Script    == Call("script", "full", n1, "absolute", "no")
LateScript == Call("script", "full", n1, "absolute", "yes")

MCCalls == {Ask, Work, LateWork, Write, Extend, Clear, Read, Other, Relative, Patch, Delete, Script, LateScript}
MCNotes == {n1, n2}

Both  == {"complete", "cut"}
Texts == {"omit", "replace"}

Single(calls) == {<<call>> : call \in calls}

Mix(entries, kinds, responses, stops, texts, scopes) ==
  [entries |-> entries, kinds |-> kinds \cup {"assistant", "result", "boundary"},
   responses |-> responses, stops |-> stops, texts |-> texts, scopes |-> scopes]

\* Chains of windows with edits, answers of the owner, coordination, unseen results, what the tail
\* shows of notes, background scripts, edits of notes calls, spellings and limits, and forks.
Mixes == {
  Mix(6, {"user", "edit"}, {<<>>}, {"complete"}, Texts, {"source"}),
  Mix(6, {"user", "edit"}, {<<Ask>>}, {"complete"}, Texts, {"source"}),
  Mix(5, {"user", "custom", "edit"}, {<<>>, <<Ask>>}, Both, {"omit"}, {"source"}),
  Mix(5, {"user", "edit"}, {<<>>, <<Work>>, <<LateWork, Work>>}, Both, {"replace"}, {"source"}),
  Mix(7, {}, Single({Write, Extend, Clear, Patch, Script}), {"complete"}, {}, {"source"}),
  Mix(7, {"custom"}, Single({Write, LateScript}), {"complete"}, {}, {"source"}),
  Mix(6, {"custom", "edit"}, Single({Write, Extend, LateScript}), {"complete"}, Texts, {"source"}),
  Mix(6, {}, Single({Write, Patch, Delete}), {"complete"}, {}, {"source"}),
  Mix(6, {}, Single({Write, Read, Other, Relative}), {"complete"}, {}, {"source"}),
  Mix(6, {}, Single({Write, Extend, Relative}), {"complete"}, {}, {"source", "fork"})}

VARIABLE mix

MCInit == Init /\ mix \in Mixes
MCNext == Step(mix.responses, mix.stops, mix.texts) /\ UNCHANGED mix
MCSpec == MCInit /\ [][MCNext]_<<vars, mix>>

\* A host with async calls: a response makes such a call and an ordinary one.
LateMix == Mix(5, {}, {<<>>, <<LateWork, Work>>}, Both, {}, {"source"})

LateSpec == Init /\ mix = LateMix /\ [][MCNext]_<<vars, mix>>

Mixed ==
  /\ Len(log) < mix.entries \/ (Len(log) = mix.entries /\ log[Len(log)].kind = "boundary")
  /\ \A i \in Path : log[i].kind \in mix.kinds
  /\ scope \in mix.scopes
=============================================================================
