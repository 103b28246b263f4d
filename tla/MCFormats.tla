------------------------------- MODULE MCFormats ------------------------------
(* The pure functions for TLC.  One input grows at a time: two records are *)
(* compared, a list is encoded, raw data is decoded, a reply is written    *)
(* and read, or modules are installed and searched for.                    *)
EXTENDS KeyLayout, ListCodec, RespCodec, ModuleCatalog

(* From beyond the left to beyond the right end of the longest list.       *)
MCBounds == -5..4

(* Text and payloads with line breaks and marks in them; the longest are   *)
(* at the limits of readRESP, and one array is beyond them.                *)
Payloads(n) == BoundedSeq({"CR", "LF", "a", "$"}, n)
Leaves(n) == {respText(kind, text) : kind \in {"+", "-", "$"}, text \in Payloads(n)}
             \cup {respIntegerValue(n1) : n1 \in {-1, 0, 12}} \cup {respNil}
Arrays == {respItems("*", list) : list \in BoundedSeq(Leaves(1), 2)}
Words == {respBulkBytes(text) : text \in Payloads(2)}
MCReplies ==
  Leaves(3) \cup Arrays
  \cup {respItems("%", <<k, v>>) : k \in Leaves(1), v \in Leaves(1)}
  \cup {respItems("*", <<v, w>>) : v \in Words, w \in Words}
  \cup {respItems("*", <<a, v>>) : a \in {respItems("*", <<>>), respItems("*", <<respBulkBytes(<<"LF">>)>>)},
                                   v \in Leaves(1)}
  \cup {respItems("*", <<v, v, v>>) : v \in Leaves(0)}

MCDirectories == <<<<"system">>, <<"system", "redis">>, <<"user">>, <<"user", "modules">>,
                   <<"user", "modules", "http">>, <<"user", "redis">>>>
MCRoots == {<<>>, <<"user">>, <<"user", ".">>, <<"user", "modules">>, <<"system">>,
            <<"absent">>, <<"file">>}
MCMissing == {<<"absent">>}
MCNotDirectories == {<<"file">>}
Artifact(kind, platform, file) == [kind |-> kind, platform |-> platform, file |-> file]
Executable == Artifact("executable", "linux", "intact")
MCManifests ==
  {[name |-> name, sound |-> TRUE, artifacts |-> artifacts] :
     name \in {"redis", "http"},
     artifacts \in {<<Executable>>, <<Artifact("executable", "linux", "altered")>>,
                    <<Artifact("c-shared", "linux", "missing"), Executable>>,
                    <<Artifact("executable", "darwin", "intact"), Executable>>,
                    <<Executable, Artifact("executable", "linux", "altered")>>}}
  \cup {[name |-> "redis", sound |-> FALSE, artifacts |-> <<Executable>>]}

First == [i \in {1, 2} |-> [kind |-> kindValue, key |-> <<>>, member |-> <<>>]]

Init == LayoutInit /\ CodecInit /\ RespInit /\ CatalogInit

Next ==
  \/ /\ CodecInit /\ RespInit /\ CatalogInit
     /\ GrowRecords
     /\ UNCHANGED <<codec, wire, catalog>>
  \/ /\ record = First /\ RespInit /\ CatalogInit
     /\ GrowBytes
     /\ UNCHANGED <<record, wire, catalog>>
  \/ /\ record = First /\ CodecInit /\ CatalogInit
     /\ GrowWire
     /\ UNCHANGED <<record, codec, catalog>>
  \/ /\ record = First /\ CodecInit /\ RespInit
     /\ GrowCatalog
     /\ UNCHANGED <<record, codec, wire>>

Spec == Init /\ [][Next]_<<record, codec, wire, catalog>>
=============================================================================
