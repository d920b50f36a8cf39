----------------------------- MODULE MCStartup ------------------------------
(***************************************************************************)
(* Instances of Startup.  Around one typical input, every combination of   *)
(* the settings, of the fields of a provider, of the fields of a publisher,*)
(* and publisher files of two and three entries where ids, backends and    *)
(* switches mix.  An int64 has 8 bits: -128..127, so that of the counts of *)
(* seconds, of 12 each, 1 and 3 fit, 11 becomes a negative duration, 22    *)
(* one below a second and 64 none.                                         *)
(***************************************************************************)
EXTENDS Startup

CONSTANTS a, b, c

Counts == {-1, 0, 1, 3, 11, 22, 64}

Source(id) ==
    [id |-> id, type |-> Written(GoogleNews), delay |-> 1, required |-> "given"]

Sink(id) ==
    [id |-> id, type |-> "http", provider |-> "other", enabled |-> "yes",
     block |-> TRUE, timeout |-> 1, required |-> "given"]

Typical ==
    [cfg |-> [crawlInterval |-> 1, storageTTL |-> 1, storageCleanup |-> 1,
              storageType |-> "bbolt"],
     provFile |-> <<Source(a), Source(b)>>,
     pubFile |-> <<Sink(a)>>,
     envSet |-> TRUE]

SomeConfigs ==
    [crawlInterval : Counts, storageTTL : Counts, storageCleanup : Counts,
     storageType : {"none", "bbolt", "other"}]

SomeProviderFiles ==
    {<<>>, <<Source(a), Source(a)>>, <<Source(a), Source(Blank)>>}
        \cup {<<p>> : p \in [id : {a}, type : TypeText, delay : {1},
                             required : {"given", "blank"}]}
        \cup {<<p, q>> : p \in [id : {a}, type : TypeText, delay : {-1, 43},
                                required : {"given"}],
                         q \in [id : {b}, type : TypeText, delay : {86, 256},
                                required : {"given"}]}

OneOfEach ==
    {<<e>> : e \in [id : {a, Blank},
                    type : {"queue", "http", "other", Blank},
                    provider : {"aws-sqs", "aws-sns", "gcp", "azure", "other"},
                    enabled : {"absent", "yes", "no"},
                    block : BOOLEAN,
                    timeout : Counts,
                    required : Texts]}

\* Entries that differ in what the file's order, ids and switches decide.
Usable ==
    [id : {a, b}, type : {"queue", "http"}, provider : {"gcp"},
     enabled : {"absent", "yes", "no"}, block : {TRUE}, timeout : {0},
     required : {"given", "env"}]

Switched ==
    [id : {a, b, c}, type : {"queue", "http"}, provider : {"aws-sqs"},
     enabled : {"absent", "no"}, block : {TRUE}, timeout : {1}, required : {"given"}]

SomePublisherFiles ==
    {<<>>} \cup OneOfEach
           \cup {<<e, f>> : e, f \in Usable}
           \cup {<<e, f, g>> : e, f, g \in Switched}

SomeInputs ==
    {[Typical EXCEPT !.cfg = s] : s \in SomeConfigs}
        \cup {[Typical EXCEPT !.provFile = f] : f \in SomeProviderFiles}
        \cup {[Typical EXCEPT !.pubFile = f, !.envSet = e] :
                 f \in SomePublisherFiles, e \in BOOLEAN}
=============================================================================
