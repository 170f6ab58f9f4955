------------------------------- MODULE MCLibrary -------------------------------
\* Components that do not touch each other, side by side: a behaviour belongs to
\* one part, and the others stay in their initial states.
EXTENDS GraphCompile, ChatDaemon, Recipe, Skills, Transcript, CronAdmin, CardWriter

VARIABLE part

Only(p, values, other) == IF part = p THEN values ELSE {other}

SomeWorld  == CHOOSE w \in Worlds : TRUE
SomeTree   == CHOOSE t \in Trees : t.dirs = {} /\ t.files = {}
SomeRecipe == CHOOSE r \in Recipes : r.subs = <<>> /\ r.params = <<>>
SomeGiven  == CHOOSE g \in Given : TRUE
SomeRegistry == CHOOSE r \in Registries : \A t \in DOMAIN r : r[t] = t

LInit ==
  /\ part \in {"graph", "daemon", "recipe", "skills", "transcript", "cron", "card"}
  /\ world \in Only("daemon", Worlds, SomeWorld)
  /\ tree \in Only("skills", Trees, SomeTree)
  /\ provider \in Only("transcript", Providers, "openai")
  /\ Init /\ DInit /\ SInit /\ PInit /\ AInit /\ CInit
  /\ recipe \in Only("recipe", Recipes, SomeRecipe) /\ given \in Only("recipe", Given, SomeGiven)
  /\ registry \in (IF part = "recipe" /\ given = <<>> THEN Registries ELSE {SomeRegistry})
  /\ RStart

LNext ==
  \/ part = "graph" /\ Next /\ UNCHANGED <<dvars, rvars, svars, pvars, avars, cvars, part>>
  \/ part = "daemon" /\ DNext /\ UNCHANGED <<vars, rvars, svars, pvars, avars, cvars, part>>
  \/ part = "recipe" /\ RNext /\ UNCHANGED <<vars, dvars, svars, pvars, avars, cvars, part>>
  \/ part = "skills" /\ SNext /\ UNCHANGED <<vars, dvars, rvars, pvars, avars, cvars, part>>
  \/ part = "transcript" /\ PNext /\ UNCHANGED <<vars, dvars, rvars, svars, avars, cvars, part>>
  \/ part = "cron" /\ ANext /\ UNCHANGED <<vars, dvars, rvars, svars, pvars, cvars, part>>
  \/ part = "card" /\ CNext /\ UNCHANGED <<vars, dvars, rvars, svars, pvars, avars, part>>

LSpec == LInit /\ [][LNext]_<<vars, dvars, rvars, svars, pvars, avars, cvars, part>>

-----------------------------------------------------------------------------
\* Graphs.  Names are interchangeable, so nodes are added in one order and the
\* entry is the first node or an unknown one; edges come last, and the next graph
\* after a Compile is another behaviour.  Daemons: see SmallWorlds.  Transcripts:
\* the longest history is for one provider, and calls that do not overlap.  Cron:
\* the second job comes before anything is disturbed, and of two jobs one is a turn
\* of an agent.  Cards: tool keys are interchangeable, as are messages of a daemon.
Canonical ==
  /\ nodes \in {{}, {"a"}, {"a", "b"}, {"a", "b", "c"}} /\ entry # "b"
  /\ numbered # <<>> => /\ finish # Unset /\ {"a", "b"} \subseteq nodes
                        /\ entry = "a" \/ (entry = "c" /\ "c" \notin nodes)
  /\ "c" \in nodes \/ Len(numbered) < MaxEdges
  /\ verdict = "none" /\ infos = <<>>
  /\ job[1].id # 2 /\ (world.kinds = {"text"} => job[3].pc = "none")
  /\ provider # "openai" \/ exposed => Len(log) < MaxLog
  /\ disturbed => added < MaxAdded
  /\ Cardinality(jobs) = 2 => \E j \in jobs : j.payload.kind = "agent_turn"
  /\ "l" \in started => "k" \in started
  /\ Len(cards) <= 2

\* Daemons.  Those with messages alone take two, cron jobs included.
World(channel, kinds, cron, time, crash) ==
  [channel |-> channel, kinds |-> kinds, cron |-> cron, time |-> time, crashes |-> crash]
SmallWorlds == {World("lark", {"switch", "other"}, FALSE, 2, 0), World("lark", {"text", "clear"}, FALSE, 0, 0),
                World("lark", {"text"}, FALSE, 0, 1), World("weixin", {"text"}, TRUE, 0, 1)}

\* Recipes: templates of the keys p and q of parameters and o of an output.
T(keys) == [given |-> TRUE, keys |-> keys]
Param(type, default, required) ==
  [name |-> "p", type |-> type, default |-> default, required |-> required]
ParamLists == {<<>>, <<Param("string", "", "required")>>, <<Param("select", "option", "")>>,
               <<Param("number", "string", "optional")>>}
FirstSubs ==
  LET all == [name : {"a", "t"}, model : {"", "m"}, instruction : {T({"p", "o"})}, prompt : {NoTemplate, T({"o"})},
              params : {<<>>}, tools : {<<>>, <<"t">>}, output : {"", "o"}]
  IN  {s \in all : s.name = "t" => s.model = "" /\ ~ s.prompt.given}
GoodSubs ==
  [name : {"b", "a"}, model : {""}, instruction : {T({"o"})}, prompt : {NoTemplate, T({"o"})},
   params : {<<Param("number", "", "")>>}, tools : {<<"t">>}, output : {""}]
OtherSubs ==
  LET u == CHOOSE v \in GoodSubs : v.name = "b" /\ ~ v.prompt.given
  IN  GoodSubs \cup {[u EXCEPT !.name = ""], [u EXCEPT !.instruction = NoTemplate], [u EXCEPT !.tools = <<"t", "t">>]}
Pairs == {<<s, u>> : s \in FirstSubs, u \in OtherSubs} \cup {<<u, s>> : s \in FirstSubs, u \in OtherSubs}
Base == [header : {TRUE}, model : {"", "m", "x"}, instruction : {NoTemplate, T({"p"})},
         prompt : {NoTemplate, T({"q"})}, params : ParamLists, subs : {<<>>},
         execution : {"sequential", "tool"}, tools : {<<>>, <<"t">>}, output : {""},
         maxIterations : {0}, context : {"none"}, contextModel : {""}]
WithSubs == {[r EXCEPT !.subs = subs] : r \in {b \in Base : ~ b.prompt.given /\ b.model # "x"},
                                        subs \in Pairs \cup {<<s>> : s \in FirstSubs}}
Flowing == [header : {TRUE}, model : {"", "m"}, instruction : {NoTemplate}, prompt : {NoTemplate},
            params : {<<>>},
            subs : {<<>>} \cup {<<s, u>> : s \in FirstSubs, u \in {v \in OtherSubs : v.name = "b"}},
            execution : {"", "parallel", "loop", "other"}, tools : {<<>>, <<"t">>, <<"u">>},
            output : {"", "o"}, maxIterations : {0, 2}, context : {"none"},
            contextModel : {""}]
Settings == [header : BOOLEAN, model : {"", "m"}, instruction : {NoTemplate, T({})}, prompt : {NoTemplate},
             params : {<<>>}, subs : {<<>>}, execution : {"", "loop"}, tools : {<<>>}, output : {"", "o"},
             maxIterations : {0, 2}, context : {"none", "summarize", "window", "other"},
             contextModel : {"", "m", "x"}]
SmallRecipes == Base \cup WithSubs \cup Flowing \cup Settings
SmallRegistries == {[t |-> "t"], [t |-> "a"]}
SmallGiven == {<<>>, [p |-> "option"], [p |-> "number"]}

\* Skill trees.
SkillDirs == {<<>>, <<"s">>, <<"s", "scripts">>, <<"s", "scripts", "t">>, <<"g", "s">>}
SkillFiles == {<<"s", "scripts", "t", "scripts", "x">>, <<"s", "scripts", "x">>, <<"scripts", "x">>, <<"g", "s", "assets", "x">>}
Tree(dirs, files, misnamed, broken, restricted) ==
  [dirs |-> dirs, files |-> files,
   name |-> [d \in dirs |-> IF d \in misnamed \/ d = <<>> THEN "top" ELSE Last(d)],
   valid |-> [d \in dirs |-> d \notin broken],
   allowed |-> [d \in dirs |-> IF d \in restricted THEN {{"grep"}, {}} ELSE {}]]
OddFiles == {<<"s", "scripts", " x">>, <<"s", "scripts", "x">>, <<"s", "scripts", "t\\x">>, <<"s", "scripts", "c:">>}
SmallTrees ==
  {Tree(dirs, files, {}, {}, {}) :
     dirs \in SUBSET SkillDirs, files \in {{}, SkillFiles} \cup {{f} : f \in SkillFiles}}
  \cup {Tree(SkillDirs, SkillFiles, m, b, {<<"s">>}) : m, b \in {{}, {<<"s">>}}}
  \cup {Tree({<<"s">>}, files, {}, {}, {}) : files \in SUBSET OddFiles}
SmallLeading == [n \in {" x", " scripts"} |-> IF n = " x" THEN "x" ELSE "scripts"]
SmallTrailing == [n \in {"x "} |-> "x"]
SmallBackslashed == [n \in {"t\\x"} |-> <<"t", "x">>]
SmallRequests ==
  {<<"">>, <<"scripts", "x">>, <<"x">>, <<"scripts", "..", "x">>, <<"scripts", "t", "..", "x">>,
   <<"", "x">>, <<"scripts", "", "x">>, <<"assets", ".", "x">>, <<".", "scripts", "x">>,
   <<"scripts", "c:", "x">>, <<"scripts", "t", "scripts", "x">>, <<" scripts", "x ">>, <<".", " x">>,
   <<"scripts", "t\\x">>}

\* Streams of models.
Chunk(candidate, text, calls) == [candidate |-> candidate, text |-> text, calls |-> calls]
SmallStreams == {<<Chunk(TRUE, TRUE, 0)>>, <<Chunk(TRUE, TRUE, 1), Chunk(TRUE, FALSE, 1)>>, <<Chunk(FALSE, FALSE, 0), Chunk(TRUE, FALSE, 1)>>}

\* Cron inputs.
Input == [name |-> "n", type |-> "", at |-> "", delay |-> "", every |-> "", expr |-> "",
          task |-> "", command |-> "", prompt |-> "", text |-> "",
          chat |-> "", turn |-> "", session |-> "", once |-> FALSE]
SmallInputs ==
  {[Input EXCEPT !.type = t, !.at = a, !.every = e, !.expr = x, !.command = "ls"] :
     t \in {"", "once", "every"}, a \in {"", "past", "bad"}, e \in {"", "tiny"}, x \in {"", "never", "bad"}}
  \cup {[Input EXCEPT !.type = t, !.delay = d, !.every = e, !.command = "ls"] :
     t \in {"", "every", "weekly"}, d \in {"", "zero", "some"}, e \in {"", "zero", "short"}}
  \cup {[Input EXCEPT !.every = "short", !.task = t, !.command = c, !.prompt = p, !.text = x,
                      !.chat = "larkchat", !.once = TRUE, !.name = ""] :
     t \in {"", "exec"}, c \in {"", "ls"}, p \in {"", "poll"}, x \in {""}}
  \cup {[Input EXCEPT !.every = "short", !.task = t, !.prompt = p, !.text = x,
                      !.turn = u, !.name = "heartbeat"] :
     t \in {"", "agent", "notify"}, p \in {"", "poll"}, x \in {"", "hi"}, u \in {"weixinchat"}}
  \cup {[Input EXCEPT !.every = "short", !.task = "notify", !.text = "hi", !.turn = "switched"]}
SmallBeats == {[Input EXCEPT !.session = "heartbeat", !.every = e] : e \in {"", "zero", "tiny", "short"}}

===============================================================================
