------------------------------ MODULE MCServices ------------------------------
(* The services with streams of messages, drafts and answers for TLC. *)
EXTENDS Services

-------------------------------------------------------------------------------
(* Transport: a project of three bytes in two parts, parts swapped, twice,   *)
(* missing or with another digest, and frames too large in between.          *)
Begun(digest, total, count, valid) ==
  [kind |-> "begin", body |-> <<1>> \o digest, digest |-> digest, total |-> total,
   count |-> count, valid |-> valid]
Part(i, bytes) == [kind |-> "part", body |-> <<0, i>>, index |-> i, data |-> bytes]
Other(kind, body) == [kind |-> kind, body |-> body]
P0 == Part(0, <<1>>)
P1 == Part(1, <<2, 3>>)
Project == Begun(<<1, 2, 3>>, 3, 2, TRUE)
Committed == Other("commit", <<2>>)
Big == Other("large", <<1, 0, 1, 1, 0>>)
MCStreams ==
  {<<Project, P1, P0, Committed>>, <<Project, P0, P0, P1, Committed>>,
   <<Begun(<<0, 2, 3>>, 3, 2, TRUE), P0, P1, Committed>>,
   <<P0, Begun(<<1>>, 1, 1, TRUE), P0, Begun(<<>>, 1, 1, FALSE), Committed>>,
   <<Other("asks", <<3, 0>>), Big, Other("command", <<3, 1>>), Other("reply", <<3, 3>>)>>,
   <<Big, Big, Committed>>}

(* AI assistance: good and bad rules in two groups, one of them active. *)
Drafted(id, good) == [id |-> id, good |-> good, from |-> 0]
TwoGroups(one, two) == [g \in {None, "a", "b"} |->
                          IF g = "a" THEN one ELSE IF g = "b" THEN two ELSE <<>>]
MCDrafts == {TwoGroups(<<Drafted(1, FALSE), Drafted(2, FALSE)>>, <<Drafted(3, TRUE)>>),
             TwoGroups(<<Drafted(1, TRUE)>>, <<Drafted(2, FALSE)>>)}
Proposed(group, good, whole) == [group |-> group, good |-> good, whole |-> whole]
MCAnswers == {<<Proposed("a", TRUE, TRUE), Proposed("a", TRUE, TRUE)>>,
              <<Proposed(None, TRUE, TRUE), Proposed("b", TRUE, TRUE)>>,
              <<Proposed("a", TRUE, FALSE), Proposed("b", TRUE, TRUE)>>,
              <<Proposed("a", FALSE, TRUE)>>}
===============================================================================
