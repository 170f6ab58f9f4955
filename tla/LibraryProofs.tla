---------------------------- MODULE LibraryProofs ----------------------------
(***************************************************************************)
(* Proofs about components of MCLibrary: recipes (Recipe), for any recipe; *)
(* the users of the cron service (CronAdmin), for any number of callers,   *)
(* inputs, sessions and jobs; skills (Skills), for any finite tree of      *)
(* directories; what models are told (Transcript), for any number of       *)
(* agents, messages and limits; and the graph compiler (GraphCompile), for *)
(* any graph.                                                              *)
(***************************************************************************)
EXTENDS Recipe, CronAdmin, Skills, Transcript, GraphCompile, FiniteSetTheorems, WellFoundedInduction, TLAPS

-----------------------------------------------------------------------------
(***************************************************************************)
(* Recipes: for every recipe, all parameters that a caller passes and any  *)
(* content of the registries, what Validate accepts can be built, and a    *)
(* sequential flow hands the outputs on.                                   *)
(***************************************************************************)

\* What Build makes of the recipe.
SubAgents == [i \in DOMAIN recipe.subs |-> SubAgent(recipe, recipe.subs[i], Values)]
IsFlow == recipe.subs # <<>> /\ recipe.execution \in Flows
BuiltAgents == IF IsFlow THEN SubAgents ELSE Append(SubAgents, RootAgent(recipe, Values))

\* Build has not run, or has refused, or has built these agents; it has also
\* chosen the option.
BuildRight ==
  /\ recipe \in AgentSpec
  /\ stage = "spec" => built = <<>> /\ option = "none" /\ begun = {}
  /\ stage = "refused" => built = <<>> /\ ~ BuildSucceeds(recipe, Values)
  /\ stage \notin {"spec", "refused"} => built = BuiltAgents /\ BuildSucceeds(recipe, Values)
  /\ option # "none" => option = SessionOption(recipe)

\* An agent that ended has begun, its output is in the state unless a tool ended
\* it, and an agent that began was given what its instruction refers to; where a prompt could not be
\* rendered, a key of it was missing.
Filled(i) == built[i].rendered \cup (built[i].left \cap Outputs(i)) \subseteq filled[i]

RunRight ==
  /\ ended \subseteq begun /\ begun \subseteq DOMAIN built
  /\ \A i \in ended \ exited : built[i].output # "" => built[i].output \in state
  /\ DOMAIN filled = DOMAIN built
  /\ recipe.execution = "sequential" =>
       /\ \A i \in begun : \A j \in 1 .. i - 1 : j \in ended
       /\ \A i \in begun : Filled(i)
       /\ stage = "unrendered" =>
            \A i \in DOMAIN built : i \notin begun /\ Turn(i) => ~ built[i].prompt \subseteq state

RecipeInv == BuildRight /\ RunRight

-----------------------------------------------------------------------------
(***************************************************************************)
(* What Validate accepts can be built.                                     *)
(***************************************************************************)

\* The modes that Validate leaves open.
LEMMA ModeFacts ==
  ASSUME NEW spec \in AgentSpec, Validate(spec)
  PROVE  /\ spec.subs = <<>> => spec.model # ""
         /\ spec.subs # <<>> => spec.execution \in Flows \cup {"tool"}
         /\ spec.execution \notin Flows => spec.model # ""
         /\ spec.context \in {"none", "window", "summarize"}
  BY DEF Validate, Flows

\* What Validate says of a sub agent.
LEMMA SubFacts ==
  ASSUME NEW spec \in AgentSpec, Validate(spec), NEW i \in DOMAIN spec.subs
  PROVE  /\ validateSubAgent(spec.subs[i])
         /\ ~ Conflicts(spec, spec.subs[i]) /\ ~ Modelless(spec, spec.subs[i])
         /\ \A j \in 1 .. i - 1 : spec.subs[j].name # spec.subs[i].name
  BY DEF Validate

\* With everything supplied no branch of Build fails: the ones for a missing model
\* or an unknown mode are dead code.
LEMMA SuppliedBuilds ==
  ASSUME recipe \in AgentSpec, Validate(recipe), Supplied
  PROVE  BuildSucceeds(recipe, Values)
  <1>1. validateParamValues(recipe.params, Values) /\ Renders(recipe.prompt, Values)
        /\ Renders(recipe.instruction, Values)
    BY DEF Supplied, Renders
  <1>2. ASSUME recipe.execution \notin Flows \/ recipe.subs = <<>>
        PROVE  RootBuilds(recipe, Values)
    <2>1. recipe.model # ""
      BY <1>2, ModeFacts
    <2>2. ResolvesModel(recipe.model)
      BY <2>1 DEF Supplied, ResolvesModel
    <2>3. resolveTools(recipe.tools)
      BY DEF Supplied, resolveTools, ResolvesTool, Range
    <2> QED
      BY <1>1, <2>2, <2>3 DEF RootBuilds
  <1>3. ASSUME NEW i \in DOMAIN recipe.subs
        PROVE  SubBuilds(recipe, recipe.subs[i], Values)
    <2> DEFINE sub == recipe.subs[i]
    <2>1. /\ sub.model \in Models \cup {""} /\ Range(sub.tools) \subseteq DOMAIN registry
          /\ validateParamValues(sub.params, resolveParams(sub.params, Values))
          /\ recipe.model \in Models \cup {""}
      BY DEF Supplied
    <2>2. recipe.execution \in Flows \cup {"tool"}
      <3>1. recipe.subs # <<>>
        OBVIOUS
      <3> QED
        BY <3>1, ModeFacts
    <2>3. ~ (recipe.execution \in Flows /\ recipe.model = "" /\ sub.model = "")
      BY SubFacts DEF Modelless
    <2>4. recipe.execution \notin Flows => recipe.model # ""
      BY ModeFacts
    <2>5. ModelOf(recipe, sub) # "" /\ ResolvesModel(ModelOf(recipe, sub))
      BY <2>1, <2>3, <2>4 DEF ModelOf, ResolvesModel
    <2>6. resolveTools(sub.tools)
      BY <2>1 DEF resolveTools, ResolvesTool, Range
    <2> QED
      BY <2>1, <2>5, <2>6 DEF SubBuilds
  <1> QED
    BY <1>1, <1>2, <1>3 DEF BuildSucceeds

\* The names of sub agents and tools together are distinct.
LEMMA ConcatDistinct ==
  ASSUME NEW s \in Seq(STRING), NEW t \in Seq(STRING), Distinct(s), Distinct(t),
         \A i \in DOMAIN s, j \in DOMAIN t : s[i] # t[j]
  PROVE  Distinct(s \o t)
  <1> DEFINE u == s \o t
  <1>0. Len(s) \in Nat /\ Len(t) \in Nat /\ DOMAIN s = 1 .. Len(s) /\ DOMAIN t = 1 .. Len(t)
    OBVIOUS
  <1>1. /\ u \in Seq(STRING) /\ Len(u) = Len(s) + Len(t) /\ DOMAIN u = 1 .. Len(u)
        /\ \A i \in 1 .. Len(s) : u[i] = s[i]
        /\ \A i \in 1 .. Len(u) : i > Len(s) => u[i] = t[i - Len(s)]
    OBVIOUS
  <1> HIDE DEF u
  <1>2. /\ \A i \in DOMAIN s : s[i] # "" /\ \A j \in DOMAIN s : s[i] = s[j] => i = j
        /\ \A i \in DOMAIN t : t[i] # "" /\ \A j \in DOMAIN t : t[i] = t[j] => i = j
    BY DEF Distinct, Range, IsInjective
  <1>3. \A i \in 1 .. Len(u) : \/ i \in DOMAIN s /\ u[i] = s[i]
                               \/ i > Len(s) /\ i - Len(s) \in DOMAIN t /\ u[i] = t[i - Len(s)]
    BY <1>0, <1>1
  <1>4. \A i \in 1 .. Len(u) : u[i] # ""
    BY <1>2, <1>3
  <1>5. ASSUME NEW i \in 1 .. Len(u), NEW j \in 1 .. Len(u), u[i] = u[j]
        PROVE  i = j
    <2>1. CASE i \in DOMAIN s /\ u[i] = s[i] /\ j \in DOMAIN s /\ u[j] = s[j]
      BY <1>2, <1>5, <2>1
    <2>2. CASE /\ i > Len(s) /\ i - Len(s) \in DOMAIN t /\ u[i] = t[i - Len(s)]
               /\ j > Len(s) /\ j - Len(s) \in DOMAIN t /\ u[j] = t[j - Len(s)]
      <3>1. i - Len(s) = j - Len(s)
        BY <1>2, <1>5, <2>2
      <3> QED
        BY <1>0, <1>1, <3>1
    <2>3. CASE i \in DOMAIN s /\ u[i] = s[i] /\ j - Len(s) \in DOMAIN t /\ u[j] = t[j - Len(s)]
      BY <1>5, <2>3
    <2>4. CASE j \in DOMAIN s /\ u[j] = s[j] /\ i - Len(s) \in DOMAIN t /\ u[i] = t[i - Len(s)]
      BY <1>5, <2>4
    <2> QED
      BY <1>3, <2>1, <2>2, <2>3, <2>4
  <1>6. Distinct(u)
    BY <1>1, <1>4, <1>5 DEF Distinct, Range, IsInjective
  <1> QED
    BY <1>6 DEF u

\* The agents that Build makes: a sub agent for each, and the root unless it is a
\* flow.
LEMMA AgentsFacts ==
  ASSUME recipe \in AgentSpec
  PROVE  /\ recipe.subs \in Seq(SubAgentSpec) /\ DOMAIN recipe.subs = 1 .. Len(recipe.subs)
         /\ SubAgents \in Seq({SubAgents[i] : i \in DOMAIN recipe.subs})
         /\ Len(SubAgents) = Len(recipe.subs)
         /\ DOMAIN BuiltAgents = 1 .. Len(BuiltAgents) /\ Len(BuiltAgents) \in Nat
         /\ IsFlow => BuiltAgents = SubAgents
         /\ ~ IsFlow => \A i \in DOMAIN BuiltAgents :
              \/ i \in DOMAIN recipe.subs /\ BuiltAgents[i] = SubAgents[i]
              \/ BuiltAgents[i] = RootAgent(recipe, Values)
  <1>1. recipe.subs \in Seq(SubAgentSpec) /\ DOMAIN recipe.subs = 1 .. Len(recipe.subs) /\ Len(recipe.subs) \in Nat
    BY DEF AgentSpec
  <1> DEFINE S == {SubAgents[i] : i \in DOMAIN recipe.subs}
             T == S \cup {RootAgent(recipe, Values)}
             b == Append(SubAgents, RootAgent(recipe, Values))
  <1>2. SubAgents \in [1 .. Len(recipe.subs) -> S]
    BY <1>1 DEF SubAgents
  <1>3. SubAgents \in Seq(S) /\ Len(SubAgents) = Len(recipe.subs) /\ SubAgents \in Seq(T)
    BY <1>1, <1>2
  <1>4. /\ b \in Seq(T) /\ Len(b) = Len(recipe.subs) + 1 /\ b[Len(recipe.subs) + 1] = RootAgent(recipe, Values)
        /\ \A i \in 1 .. Len(recipe.subs) : b[i] = SubAgents[i]
    <2>1. RootAgent(recipe, Values) \in T
      OBVIOUS
    <2> HIDE DEF T
    <2> QED
      BY <1>1, <1>3, <2>1
  <1> HIDE DEF S, T
  <1>5. DOMAIN SubAgents = 1 .. Len(recipe.subs) /\ DOMAIN b = 1 .. Len(recipe.subs) + 1
    BY <1>3, <1>4
  <1>6. CASE IsFlow
    <2>1. BuiltAgents = SubAgents
      BY <1>6 DEF BuiltAgents
    <2> QED
      BY <1>1, <1>3, <1>5, <1>6, <2>1 DEF S
  <1>7. CASE ~ IsFlow
    <2>1. BuiltAgents = b
      BY <1>7 DEF BuiltAgents
    <2> HIDE DEF b
    <2>2. ASSUME NEW i \in DOMAIN BuiltAgents
          PROVE  \/ i \in DOMAIN recipe.subs /\ BuiltAgents[i] = SubAgents[i]
                 \/ BuiltAgents[i] = RootAgent(recipe, Values)
      <3>1. i \in 1 .. Len(recipe.subs) \/ i = Len(recipe.subs) + 1
        BY <1>1, <1>5, <2>1
      <3> QED
        BY <1>1, <1>4, <2>1, <3>1
    <2> QED
      BY <1>1, <1>3, <1>4, <1>5, <1>7, <2>1, <2>2 DEF S
  <1> QED
    BY <1>6, <1>7

\* Where tools are registered under their names, the names are the keys.
LEMMA NamesAreKeys ==
  ASSUME OwnNames, NEW keys \in Seq(STRING), resolveTools(keys)
  PROVE  ToolNames(keys) = keys
  <1>1. \A i \in DOMAIN keys : registry[keys[i]] = keys[i]
    BY DEF OwnNames, resolveTools, ResolvesTool
  <1>2. keys = [i \in DOMAIN keys |-> keys[i]]
    OBVIOUS
  <1> QED
    BY <1>1, <1>2 DEF ToolNames

\* Every agent that Build makes has a registered model, and tools it can tell apart
\* where they are registered under their names.
LEMMA AgentsUsable ==
  ASSUME recipe \in AgentSpec, BuildSucceeds(recipe, Values), NEW i \in DOMAIN BuiltAgents
  PROVE  BuiltAgents[i].model \in Models /\ (OwnNames => Distinct(BuiltAgents[i].tools))
  <1>0. Validate(recipe)
    BY DEF BuildSucceeds
  <1>1. ASSUME NEW k \in DOMAIN recipe.subs, BuiltAgents[i] = SubAgents[k]
        PROVE  BuiltAgents[i].model \in Models /\ (OwnNames => Distinct(BuiltAgents[i].tools))
    <2>1. SubAgents[k] = SubAgent(recipe, recipe.subs[k], Values)
      BY DEF SubAgents
    <2>2. SubAgents[k].model = ModelOf(recipe, recipe.subs[k]) /\ SubAgents[k].tools = ToolNames(recipe.subs[k].tools)
      BY <2>1 DEF SubAgent, Built
    <2>3. ModelOf(recipe, recipe.subs[k]) \in Models
      BY DEF BuildSucceeds, SubBuilds, ResolvesModel
    <2>4. Distinct(recipe.subs[k].tools)
      BY <1>0, SubFacts DEF validateSubAgent
    <2>5. recipe.subs[k].tools \in Seq(STRING)
      <3>1. recipe.subs \in Seq(SubAgentSpec)
        BY DEF AgentSpec
      <3>2. recipe.subs[k] \in SubAgentSpec
        BY <3>1
      <3> QED
        BY <3>2 DEF SubAgentSpec
    <2>6. resolveTools(recipe.subs[k].tools)
      BY DEF BuildSucceeds, SubBuilds
    <2>7. OwnNames => ToolNames(recipe.subs[k].tools) = recipe.subs[k].tools
      BY <2>5, <2>6, NamesAreKeys
    <2> QED
      BY <1>1, <2>2, <2>3, <2>4, <2>7
  <1>2. ASSUME ~ IsFlow, BuiltAgents[i] = RootAgent(recipe, Values)
        PROVE  BuiltAgents[i].model \in Models /\ (OwnNames => Distinct(BuiltAgents[i].tools))
    <2> DEFINE names == [k \in DOMAIN recipe.subs |-> recipe.subs[k].name]
    <2>1. BuiltAgents[i].model = recipe.model /\ BuiltAgents[i].tools = names \o ToolNames(recipe.tools)
      BY <1>2 DEF RootAgent, Built
    <2>2. recipe.execution \notin Flows \/ recipe.subs = <<>>
      BY <1>2 DEF IsFlow
    <2>3. recipe.model \in Models
      BY <2>2 DEF BuildSucceeds, RootBuilds, ResolvesModel
    <2>4. recipe.subs \in Seq(SubAgentSpec) /\ recipe.tools \in Seq(STRING) /\ Len(recipe.subs) \in Nat
          /\ DOMAIN recipe.subs = 1 .. Len(recipe.subs)
      BY DEF AgentSpec
    <2>5. ASSUME NEW k \in DOMAIN recipe.subs PROVE recipe.subs[k].name \in STRING
      <3>1. recipe.subs[k] \in SubAgentSpec
        BY <2>4
      <3> QED
        BY <3>1 DEF SubAgentSpec
    <2>6. names \in Seq(STRING) /\ DOMAIN names = DOMAIN recipe.subs
          /\ \A k \in DOMAIN recipe.subs : names[k] = recipe.subs[k].name
      BY <2>4, <2>5
    <2> HIDE DEF names
    <2>7. Distinct(recipe.tools)
      BY <1>0 DEF Validate
    <2>8. Distinct(names)
      <3>1. \A k \in DOMAIN recipe.subs : recipe.subs[k].name # ""
        BY <1>0, SubFacts DEF validateSubAgent
      <3>2. \A k \in DOMAIN recipe.subs : \A j \in 1 .. k - 1 : recipe.subs[j].name # recipe.subs[k].name
        BY <1>0, SubFacts
      <3>3. ASSUME NEW k \in 1 .. Len(recipe.subs), NEW j \in 1 .. Len(recipe.subs), names[k] = names[j]
            PROVE  k = j
        <4>1. CASE j < k
          BY <2>4, <2>6, <3>2, <3>3, <4>1
        <4>2. CASE k < j
          BY <2>4, <2>6, <3>2, <3>3, <4>2
        <4> QED
          BY <2>4, <4>1, <4>2
      <3> QED
        BY <2>4, <2>6, <3>1, <3>3 DEF Distinct, Range, IsInjective
    <2>9. \A k \in DOMAIN names, j \in DOMAIN recipe.tools : names[k] # recipe.tools[j]
      <3> SUFFICES ASSUME NEW k \in DOMAIN recipe.subs, NEW j \in DOMAIN recipe.tools
                   PROVE  recipe.subs[k].name # recipe.tools[j]
        BY <2>6
      <3>1. recipe.execution = "tool"
        <4>1. recipe.subs # <<>>
          OBVIOUS
        <4> QED
          BY <1>0, <2>2, <4>1, ModeFacts
      <3>2. ~ Conflicts(recipe, recipe.subs[k])
        BY <1>0, SubFacts
      <3> QED
        BY <3>1, <3>2 DEF Conflicts, Range
    <2>10. Distinct(names \o recipe.tools)
      BY <2>4, <2>6, <2>7, <2>8, <2>9, ConcatDistinct
    <2>11. OwnNames => ToolNames(recipe.tools) = recipe.tools
      <3>1. resolveTools(recipe.tools)
        BY <2>2 DEF BuildSucceeds, RootBuilds
      <3> QED
        BY <2>4, <3>1, NamesAreKeys
    <2> QED
      BY <2>1, <2>3, <2>10, <2>11
  <1>3. IsFlow => DOMAIN BuiltAgents = DOMAIN recipe.subs /\ BuiltAgents[i] = SubAgents[i]
    BY AgentsFacts DEF SubAgents
  <1> QED
    BY <1>1, <1>2, <1>3, AgentsFacts

-----------------------------------------------------------------------------
(***************************************************************************)
(* The invariant.                                                          *)
(***************************************************************************)
LEMMA InitRecipe == RInit => RecipeInv
  <1> SUFFICES ASSUME RInit PROVE RecipeInv
    OBVIOUS
  <1>1. recipe \in AgentSpec
    BY RecipeAssumption DEF RInit
  <1>2. stage = "spec" /\ built = <<>> /\ option = "none" /\ begun = {} /\ ended = {} /\ exited = {} /\ filled = <<>>
    BY DEF RInit, RStart
  <1>3. BuildRight
    BY <1>1, <1>2 DEF BuildRight
  <1>4. RunRight
    BY <1>2 DEF RunRight
  <1> QED
    BY <1>3, <1>4 DEF RecipeInv

\* The recipe and the values stay the same, and so does what Build makes of them.
LEMMA SameRecipe ==
  ASSUME UNCHANGED <<recipe, given, registry>>
  PROVE  UNCHANGED <<Values, BuiltAgents, BuildSucceeds(recipe, Values)>>
  <1>1. Values' = Values
    BY DEF Values
  <1>2. SubAgents' = SubAgents
    BY <1>1 DEF SubAgents, SubAgent, ToolNames
  <1>3. RootAgent(recipe, Values)' = RootAgent(recipe, Values)
    BY <1>1 DEF RootAgent, ToolNames
  <1>4. BuildSucceeds(recipe, Values)' = BuildSucceeds(recipe, Values)
    BY <1>1 DEF BuildSucceeds, RootBuilds, SubBuilds, resolveTools, ResolvesTool
  <1>5. BuiltAgents' = BuiltAgents
    BY <1>2, <1>3 DEF BuiltAgents, IsFlow
  <1> QED
    BY <1>1, <1>4, <1>5

\* Build keeps the invariant, whether it builds or refuses.
LEMMA BuildInv ==
  ASSUME RecipeInv, Build
  PROVE  RecipeInv'
  <1>0. /\ stage = "spec" /\ built = <<>> /\ begun = {} /\ recipe \in AgentSpec
        /\ UNCHANGED <<recipe, given, registry, begun, ended, exited, state>> /\ option' = SessionOption(recipe)
    BY DEF RecipeInv, BuildRight, Build
  <1>1. UNCHANGED <<Values, BuiltAgents, BuildSucceeds(recipe, Values)>>
    BY <1>0, SameRecipe
  <1>2. /\ BuildSucceeds(recipe, Values) =>
             stage' = "built" /\ built' = BuiltAgents /\ filled' = [i \in DOMAIN built' |-> {}]
        /\ ~ BuildSucceeds(recipe, Values) => stage' = "refused" /\ UNCHANGED <<built, filled>>
    BY DEF Build, Values, BuiltAgents, IsFlow, SubAgents
  <1>3. BuildRight'
    BY <1>0, <1>1, <1>2 DEF BuildRight
  <1>4. ended = {} /\ DOMAIN filled = DOMAIN built
    BY <1>0 DEF RecipeInv, RunRight
  <1>5. DOMAIN filled' = DOMAIN built'
    BY <1>2, <1>4
  <1>6. stage' # "unrendered"
    BY <1>2
  <1>7. RunRight'
    BY <1>0, <1>4, <1>5, <1>6 DEF RunRight
  <1> QED
    BY <1>3, <1>7 DEF RecipeInv

\* What a step of the run leaves alone.
LEMMA RunBuildRight ==
  ASSUME RecipeInv, UNCHANGED <<recipe, given, registry, built, option>>, stage = "built",
         stage' \in {"built", "unrendered", "failed"}
  PROVE  BuildRight'
  <1>1. UNCHANGED <<Values, BuiltAgents, BuildSucceeds(recipe, Values)>>
    BY SameRecipe
  <1>2. stage \notin {"spec", "refused"} /\ stage' \notin {"spec", "refused"}
    OBVIOUS
  <1> QED
    BY <1>1, <1>2 DEF RecipeInv, BuildRight

\* A sub agent that runs, or whose prompt cannot be rendered.
LEMMA SubRunsInv ==
  ASSUME RecipeInv, NEW i \in DOMAIN built, SubRuns(i)
  PROVE  RecipeInv'
  <1>0. /\ stage = "built" /\ i \notin begun /\ Turn(i)
        /\ UNCHANGED <<recipe, given, registry, built, option, ended, exited, state>>
        /\ \/ /\ built[i].prompt \subseteq state /\ begun' = begun \cup {i} /\ stage' = "built"
              /\ filled' = [filled EXCEPT ![i] = built[i].rendered \cup (built[i].left \cap state)]
           \/ /\ ~ built[i].prompt \subseteq state /\ stage' = "unrendered" /\ UNCHANGED <<begun, filled>>
    BY DEF SubRuns
  <1>1. BuildRight'
    BY <1>0, RunBuildRight
  <1>2. /\ recipe \in AgentSpec /\ built = BuiltAgents /\ DOMAIN built = 1 .. Len(built) /\ Len(built) \in Nat
    BY <1>0, AgentsFacts DEF RecipeInv, BuildRight
  <1>3. /\ ended \subseteq begun /\ begun \subseteq DOMAIN built /\ DOMAIN filled = DOMAIN built
        /\ \A j \in ended \ exited : built[j].output # "" => built[j].output \in state
    BY DEF RecipeInv, RunRight
  <1>4. DOMAIN filled' = DOMAIN built'
    BY <1>0, <1>3
  <1>5. ASSUME recipe.execution = "sequential"
        PROVE  /\ \A j \in begun' : \A k \in 1 .. j - 1 : k \in ended
               /\ \A j \in begun' : Filled(j)'
               /\ stage' = "unrendered" =>
                    \A j \in DOMAIN built : j \notin begun' /\ Turn(j) => ~ built[j].prompt \subseteq state
    <2>1. /\ \A k \in 1 .. i - 1 : k \in ended
          /\ \A j \in begun : \A k \in 1 .. j - 1 : k \in ended
          /\ \A j \in begun : Filled(j)
      BY <1>0, <1>5 DEF RecipeInv, RunRight, Turn
    <2>2. CASE built[i].prompt \subseteq state
      <3>0. /\ begun' = begun \cup {i} /\ stage' = "built"
            /\ filled' = [filled EXCEPT ![i] = built[i].rendered \cup (built[i].left \cap state)]
        BY <1>0, <2>2
      <3>1. \A j \in begun' : \A k \in 1 .. j - 1 : k \in ended
        BY <2>1, <3>0
      <3>2. ASSUME NEW j \in begun'
            PROVE  Filled(j)'
        <4>1. CASE j # i
          <5>1. j \in begun /\ filled'[j] = filled[j]
            BY <1>0, <1>3, <3>0, <4>1
          <5> QED
            BY <1>0, <2>1, <5>1 DEF Filled, Outputs
        <4>2. CASE j = i
          <5>1. filled'[i] = built[i].rendered \cup (built[i].left \cap state)
            BY <1>3, <3>0
          <5>2. \A k \in (1 .. i - 1) \ exited : built[k].output # "" => built[k].output \in state
            BY <1>3, <2>1
          <5>3. Outputs(i) \subseteq state
            BY <5>2 DEF Outputs
          <5>4. Outputs(i)' = Outputs(i)
            BY <1>0 DEF Outputs
          <5>5. Filled(i)' <=> built[i].rendered \cup (built[i].left \cap Outputs(i)) \subseteq filled'[i]
            BY <1>0, <5>4 DEF Filled
          <5>6. built[i].rendered \cup (built[i].left \cap Outputs(i)) \subseteq filled'[i]
            BY <5>1, <5>3
          <5> QED
            BY <4>2, <5>5, <5>6
        <4> QED
          BY <4>1, <4>2
      <3> QED
        BY <3>0, <3>1, <3>2
    <2>3. CASE ~ built[i].prompt \subseteq state
      <3>0. stage' = "unrendered" /\ begun' = begun /\ filled' = filled
        BY <1>0, <2>3
      <3>1. ASSUME NEW j \in DOMAIN built, j \notin begun, Turn(j)
            PROVE  ~ built[j].prompt \subseteq state
        <4>1. \A k \in 1 .. j - 1 : k \in begun
          BY <1>3, <1>5, <3>1 DEF Turn
        <4>2. \A k \in 1 .. i - 1 : k \in begun
          BY <1>3, <2>1
        <4>3. ~ i < j /\ ~ j < i
          BY <1>0, <1>2, <3>1, <4>1, <4>2
        <4>4. i = j
          BY <1>2, <4>3
        <4> QED
          BY <2>3, <4>4
      <3>2. \A j : Filled(j)' = Filled(j)
        BY <1>0, <3>0 DEF Filled, Outputs
      <3> QED
        BY <2>1, <3>0, <3>1, <3>2
    <2> QED
      BY <2>2, <2>3
  <1>6. RunRight'
    <2>1. /\ ended' \subseteq begun' /\ begun' \subseteq DOMAIN built'
          /\ \A j \in ended' \ exited' : built'[j].output # "" => built'[j].output \in state'
      BY <1>0, <1>3
    <2>2. \A j : Turn(j)' = Turn(j)
      BY <1>0 DEF Turn
    <2> QED
      BY <1>0, <1>4, <1>5, <2>1, <2>2 DEF RunRight
  <1> QED
    BY <1>1, <1>6 DEF RecipeInv

\* A sub agent that ends puts its output into the state, unless a tool ended it;
\* the agents that have begun are later ones, or the same, and no outputs that they
\* were given are taken back.
LEMMA SubEndsInv ==
  ASSUME RecipeInv, NEW i \in DOMAIN built, SubEnds(i)
  PROVE  RecipeInv'
  <1>0. /\ stage = "built" /\ i \in begun /\ i \notin ended
        /\ UNCHANGED <<recipe, given, registry, built, option, begun, filled>>
        /\ \/ /\ ended' = ended \cup {i} /\ state' = state \cup ({built[i].output} \ {""})
              /\ stage' = "built" /\ exited' = exited
           \/ ended' = ended \cup {i} /\ exited' = exited \cup {i} /\ UNCHANGED <<state, stage>>
           \/ stage' = "failed" /\ UNCHANGED <<ended, exited, state>>
    BY DEF SubEnds
  <1>1. BuildRight'
    BY <1>0, RunBuildRight
  <1>2. stage' # "unrendered" /\ ended \subseteq ended'
    BY <1>0
  <1>3. \A j \in ended' \ exited' : built[j].output # "" => built[j].output \in state'
    BY <1>0 DEF RecipeInv, RunRight
  <1>4. ended' \subseteq begun' /\ begun' \subseteq DOMAIN built' /\ DOMAIN filled' = DOMAIN built'
    BY <1>0 DEF RecipeInv, RunRight
  <1>5. ASSUME recipe.execution = "sequential"
        PROVE  /\ \A j \in begun : \A k \in 1 .. j - 1 : k \in ended'
               /\ \A j \in begun : Filled(j)'
    <2>1. /\ \A j \in begun : \A k \in 1 .. j - 1 : k \in ended
          /\ \A j \in begun : Filled(j)
      BY <1>5 DEF RecipeInv, RunRight
    <2>2. ASSUME NEW j \in begun PROVE Filled(j)'
      <3>1. i \notin 1 .. j - 1
        BY <1>0, <2>1
      <3>2. (1 .. j - 1) \ exited' = (1 .. j - 1) \ exited
        BY <1>0, <3>1
      <3>3. Outputs(j)' = Outputs(j)
        BY <1>0, <3>2 DEF Outputs
      <3> QED
        BY <1>0, <2>1, <3>3 DEF Filled
    <2> QED
      BY <1>2, <2>1, <2>2
  <1>6. RunRight'
    BY <1>0, <1>2, <1>3, <1>4, <1>5 DEF RunRight
  <1> QED
    BY <1>1, <1>6 DEF RecipeInv

\* Every step keeps the invariant.
LEMMA StepRecipe ==
  ASSUME RecipeInv, [RNext]_rvars
  PROVE  RecipeInv'
  <1>1. CASE UNCHANGED rvars
    <2>1. UNCHANGED <<recipe, given, registry, stage, built, option, begun, ended, exited, state, filled>>
      BY <1>1 DEF rvars
    <2>2. UNCHANGED <<Values, BuiltAgents, BuildSucceeds(recipe, Values)>>
      BY <2>1, SameRecipe
    <2>3. BuildRight'
      BY <2>1, <2>2 DEF RecipeInv, BuildRight
    <2>4. RunRight'
      <3>1. \A i : Turn(i)' = Turn(i)
        BY <2>1 DEF Turn
      <3>2. \A i : Filled(i)' = Filled(i)
        BY <2>1 DEF Filled, Outputs
      <3> QED
        BY <2>1, <3>1, <3>2 DEF RecipeInv, RunRight
    <2> QED
      BY <2>3, <2>4 DEF RecipeInv
  <1> QED
    BY <1>1, BuildInv, SubRunsInv, SubEndsInv DEF RNext

-----------------------------------------------------------------------------
\* Build fails on no recipe that Validate accepts and whose names, values and keys
\* are there, and no compressor is missing whose model is registered; what it
\* builds has models and, where tools are registered under their own names,
\* distinguishable tools.
THEOREM ValidBuildsHolds == RSpec => []ValidBuilds
  <1>1. RecipeInv => ValidBuilds
    <2> SUFFICES ASSUME RecipeInv PROVE ValidBuilds
      OBVIOUS
    <2>0. BuildRight /\ recipe \in AgentSpec
      BY DEF RecipeInv, BuildRight
    <2>1. stage = "refused" /\ Validate(recipe) => ~ Supplied
      BY <2>0, SuppliedBuilds DEF BuildRight
    <2>2. ASSUME option = "error", Validate(recipe) PROVE SummaryModel(recipe) \notin Models
      <3>1. SessionOption(recipe) = "error" /\ recipe.context \in {"none", "window", "summarize"}
        BY <2>0, <2>2, ModeFacts DEF BuildRight
      <3> QED
        BY <3>1 DEF SessionOption, ResolvesModel
    <2>3. ASSUME NEW i \in DOMAIN built
          PROVE  built[i].model \in Models /\ (OwnNames => Distinct(built[i].tools))
      <3>1. built # <<>>
        OBVIOUS
      <3>2. built = BuiltAgents /\ BuildSucceeds(recipe, Values)
        BY <2>0, <3>1 DEF BuildRight
      <3> QED
        BY <2>0, <3>2, AgentsUsable
    <2> QED
      BY <2>1, <2>2, <2>3 DEF ValidBuilds
  <1> QED
    BY <1>1, InitRecipe, StepRecipe, PTL DEF RSpec

\* In a sequential recipe the output of a sub agent reaches every later one that
\* refers to it, in its instruction and in its prompt; only of an agent that a tool
\* ended there is none.
THEOREM ChainFillsHolds == RSpec => []ChainFills
  <1>1. RecipeInv => ChainFills
    <2> SUFFICES ASSUME RecipeInv, recipe.execution = "sequential", NEW i \in DOMAIN built,
                        recipe.subs # <<>>
                 PROVE  LET sub == recipe.subs[i]
                            fromParams == DOMAIN resolveParams(sub.params, Values)
                        IN  /\ i \in begun =>
                                 (sub.instruction.keys \cap (Outputs(i) \cup fromParams)) \subseteq filled[i]
                            /\ (stage = "unrendered" /\ i \notin begun /\ Turn(i))
                                 => ~ sub.prompt.keys \subseteq Outputs(i) \cup fromParams
      BY DEF ChainFills
    <2> DEFINE sub == recipe.subs[i]
               fromParams == DOMAIN resolveParams(sub.params, Values)
    <2>0. BuildRight /\ RunRight /\ recipe \in AgentSpec
      BY DEF RecipeInv, BuildRight
    <2>1. built = BuiltAgents /\ IsFlow
      <3>1. built # <<>>
        OBVIOUS
      <3> QED
        BY <2>0, <3>1 DEF BuildRight, IsFlow, Flows
    <2>2. built[i] = SubAgent(recipe, sub, Values)
      BY <2>0, <2>1, AgentsFacts DEF SubAgents
    <2>3. /\ built[i].rendered = sub.instruction.keys \cap fromParams
          /\ built[i].left = sub.instruction.keys \ fromParams
          /\ built[i].prompt = sub.prompt.keys \ fromParams
      BY <2>2 DEF SubAgent, Built, Left
    <2>4. i \in begun => built[i].rendered \cup (built[i].left \cap Outputs(i)) \subseteq filled[i]
      BY <2>0 DEF RunRight, Filled
    <2>5. ASSUME stage = "unrendered", i \notin begun, Turn(i)
          PROVE  ~ sub.prompt.keys \subseteq Outputs(i) \cup fromParams
      <3>1. ~ built[i].prompt \subseteq state
        BY <2>0, <2>5 DEF RunRight
      <3>2. \A j \in 1 .. i - 1 : j \in ended
        BY <2>5 DEF Turn
      <3>3. Outputs(i) \subseteq state
        BY <2>0, <3>2 DEF RunRight, Outputs
      <3> HIDE DEF fromParams
      <3> QED
        BY <2>3, <3>1, <3>3
    <2> HIDE DEF fromParams
    <2>6. i \in begun => (sub.instruction.keys \cap (Outputs(i) \cup fromParams)) \subseteq filled[i]
      BY <2>3, <2>4
    <2> QED
      BY <2>5, <2>6 DEF fromParams
  <1> QED
    BY <1>1, InitRecipe, StepRecipe, PTL DEF RSpec

-----------------------------------------------------------------------------
(***************************************************************************)
(* The users of the cron service.  A heartbeat command lists, removes and  *)
(* adds in steps of its own, and may be killed between them.  The          *)
(* invariant says what it has found out by then that is still true: one    *)
(* about to add left no heartbeat job for its session, one about to remove *)
(* knows the only one, and the id that it holds is used for no other job.  *)
(* The lists in the memory of a process are such as the store once was, so *)
(* what holds of every job holds also after one of them is written back.   *)
(***************************************************************************)

\* Nobody writes a heartbeat job by hand, with the tool or the add command.
NoneByHand ==
  \A in \in Inputs :
    ~ (in.name = "heartbeat" /\ in.prompt = "poll" /\ in.session \in Sessions \ {""})

\* A job of the heartbeat command, or one that it would take for its own.
Beat(j) ==
  /\ j.name = "heartbeat" /\ j.payload.kind = "agent_turn" /\ j.payload.body = "poll"
  /\ j.payload.session \in Sessions \ {""}

\* What holds of every payload that is stored.
PayloadOK(p) ==
  /\ p.kind \in {"exec", "agent_turn", "notify"} /\ p.body # ""
  /\ p.kind = "agent_turn" => p.session # ""
  /\ p.kind = "notify" => p.reply # ""

\* A job is a record of these fields.
IsJob(j) ==
  j = [id |-> j.id, name |-> j.name, sched |-> j.sched, on |-> j.on, once |-> j.once,
       payload |-> j.payload]

\* What holds of every job that is stored; a heartbeat job never goes off.
JobOK(j) ==
  /\ j.id \in 1 .. added /\ (j.on => j.sched.future)
  /\ PayloadOK(j.payload)
  /\ Beat(j) => /\ j.payload = Poll(j.payload.session) /\ ~ j.once /\ j.on = TRUE
                /\ j.sched.kind # "at"

JobsInv ==
  /\ added \in Nat
  /\ \A j \in jobs : IsJob(j) /\ JobOK(j)
  /\ \A i, j \in jobs : i.id = j.id => i = j

\* The same of a list in memory.
StoreOK(S) ==
  /\ \A j \in S : IsJob(j) /\ JobOK(j)
  /\ \A i, j \in S : i.id = j.id => i = j

MemoryInv == StoreOK(loaded) /\ \A r \in running : r.by # "daemon" => StoreOK(r.view)

\* A heartbeat command is between its steps.
Busy(c) == client[c].pc \in {"adds", "removes"}

\* What a client remembers is a record of these fields.
IsClient(v) == v = [pc |-> v.pc, id |-> v.id, sched |-> v.sched, session |-> v.session]

\* What a heartbeat command remembers is a schedule that is not for one time, and
\* a job of its session.
ClientOK(c) ==
  /\ Busy(c) => client[c].session \in Sessions /\ client[c].sched.kind # "at"
  /\ client[c].pc = "removes" =>
       /\ IsClient(client[c]) /\ client[c].id \in 1 .. added
       /\ ~ disturbed =>
            \A j \in jobs : j.id = client[c].id => j.payload.session = client[c].session

ClientInv ==
  /\ client = [c \in Callers |-> client[c]] /\ ensured = [s \in Sessions |-> ensured[s]]
  /\ \A c \in Callers : ClientOK(c)

\* A command about to add finds no heartbeat job, one about to remove no other.
Claim(c) ==
  client[c].session # "" =>
    /\ client[c].pc = "adds" => Heartbeats(client[c].session) = {}
    /\ client[c].pc = "removes" => \A j \in Heartbeats(client[c].session) : j.id = client[c].id

\* One heartbeat job for a session, with the schedule that was asked for.
Single(s) ==
  /\ \A i, j \in Heartbeats(s) : i = j
  /\ ensured[s].kind # "error" => \E j \in Heartbeats(s) : j.sched = ensured[s] /\ j.on

\* While heartbeat commands do not overlap and no old list is written back.
AloneInv ==
  ~ disturbed => /\ \A c, d \in Callers : Busy(c) /\ Busy(d) => c = d
                 /\ \A c \in Callers : Claim(c)
                 /\ \A s \in Sessions \ {""} : Single(s)

\* The inductive invariant is MemoryInv and this, of what is in the store.
AdminInv == JobsInv /\ ClientInv /\ AloneInv

\* The handler can run what is stored.
LEMMA StoredRuns ==
  ASSUME NEW p, PayloadOK(p)
  PROVE  Runnable(p)
  <1>1. \A channels : ~ NotifyReaches(channels, "")
    BY DEF NotifyReaches
  <1>2. ASSUME NEW channels, p.reply = ""
        PROVE  Handled(channels, p, TRUE, TRUE) = "unsent"
    BY <1>2 DEF Handled, PayloadOK
  <1>3. ASSUME NEW channels, NotifyReaches(channels, p.reply)
        PROVE  Handled(channels, p, TRUE, TRUE) = "sent"
    <2>1. p.reply # ""
      BY <1>1, <1>3
    <2>2. CASE p.kind = "notify"
      BY <1>3, <2>2 DEF Handled
    <2>3. CASE p.kind # "notify"
      BY <1>3, <2>1, <2>3 DEF Handled
    <2> QED
      BY <2>2, <2>3
  <1> QED
    BY <1>2, <1>3 DEF Runnable, PayloadOK

\* A payload by its fields.
LEMMA PayRecord ==
  ASSUME NEW kind, NEW body, NEW session, NEW reply, NEW p,
         p = [kind |-> kind, body |-> body, session |-> session, reply |-> reply]
  PROVE  /\ p.kind = kind /\ p.body = body /\ p.session = session /\ p.reply = reply
         /\ p = [kind |-> p.kind, body |-> p.body, session |-> p.session, reply |-> p.reply]
  BY Zenon

\* What the tool and the add command make of their inputs.
TaskOK(in, p) ==
  /\ p.kind \in {"exec", "agent_turn", "notify"} /\ p.body # ""
  /\ p.kind = "notify" => p.reply # ""
  /\ p.kind = "agent_turn" => p.body = in.prompt /\ p.session = in.session
  /\ p = [kind |-> p.kind, body |-> p.body, session |-> p.session, reply |-> p.reply]

\* A payload made of its fields.
LEMMA PayOK ==
  ASSUME NEW in, NEW kind, NEW body, NEW session, NEW reply, NEW p,
         p = [kind |-> kind, body |-> body, session |-> session, reply |-> reply],
         kind \in {"exec", "agent_turn", "notify"}, body # "",
         kind = "notify" => reply # "",
         kind = "agent_turn" => body = in.prompt /\ session = in.session
  PROVE  TaskOK(in, p)
  <1>1. /\ p.kind = kind /\ p.body = body /\ p.session = session /\ p.reply = reply
        /\ p = [kind |-> p.kind, body |-> p.body, session |-> p.session, reply |-> p.reply]
    BY PayRecord, Zenon
  <1> QED
    BY <1>1, Zenon DEF TaskOK

\* A task that is not refused is one of the three, with what the handler needs.
LEMMA TaskFacts ==
  ASSUME NEW in, NEW chat, Task(in, chat).kind # "error"
  PROVE  TaskOK(in, Task(in, chat))
  <1> DEFINE type == CASE in.task # "" -> in.task
                       [] in.task = "" /\ in.command # "" -> "exec"
                       [] in.task = "" /\ in.command = "" /\ in.prompt # "" -> "agent"
                       [] OTHER -> IF in.text # "" THEN "notify" ELSE "none"
             pay(kind, body, session) ==
               [kind |-> kind, body |-> body, session |-> session, reply |-> chat]
  <1>1. Task(in, chat) =
          CASE type = "exec" /\ in.command # "" -> pay("exec", in.command, "")
            [] type = "agent" /\ in.prompt # "" -> pay("agent_turn", in.prompt, in.session)
            [] type = "notify" /\ in.text # "" /\ chat # "" -> pay("notify", in.text, "")
            [] OTHER -> Nothing
    BY DEF Task
  <1>2. Nothing.kind = "error"
    BY DEF Nothing
  <1>3. in.command # "" => TaskOK(in, pay("exec", in.command, ""))
    BY PayOK, Zenon
  <1>4. in.prompt # "" => TaskOK(in, pay("agent_turn", in.prompt, in.session))
    BY PayOK, Zenon
  <1>5. in.text # "" /\ chat # "" => TaskOK(in, pay("notify", in.text, ""))
    BY PayOK, Zenon
  <1> HIDE DEF type, pay
  <1> QED
    BY <1>1, <1>2, <1>3, <1>4, <1>5

\* The heartbeat command cannot ask for one time.
LEMMA BeatSchedule ==
  ASSUME NEW expr, NEW every
  PROVE  parseScheduleFlags(expr, every, "", When("every", 2, TRUE)).kind # "at"
  <1>1. When("every", 2, TRUE).kind = "every" /\ Error.kind = "error" /\ Every(every).kind = "every"
    BY DEF When, Error, Every
  <1>2. Expr(expr).kind # "at"
    BY DEF Expr, When, Error
  <1>3. parseScheduleFlags(expr, every, "", When("every", 2, TRUE)) \in
          {When("every", 2, TRUE), Expr(expr), Every(every), Error}
    BY DEF parseScheduleFlags
  <1> QED
    BY <1>1, <1>2, <1>3

\* A job that is turned off keeps the rest.
LEMMA OffRecord ==
  ASSUME NEW j, IsJob(j), NEW on, NEW n, n = [j EXCEPT !.on = on]
  PROVE  /\ IsJob(n) /\ n.on = on
         /\ n.id = j.id /\ n.name = j.name /\ n.sched = j.sched
         /\ n.once = j.once /\ n.payload = j.payload
  <1>1. j \in [id : {j.id}, name : {j.name}, sched : {j.sched}, on : {j.on}, once : {j.once},
               payload : {j.payload}]
    BY DEF IsJob
  <1>2. n = [id |-> j.id, name |-> j.name, sched |-> j.sched, on |-> on, once |-> j.once,
             payload |-> j.payload]
    BY <1>1
  <1> QED
    BY <1>2 DEF IsJob

\* A payload that is given a session keeps the rest.
LEMMA OwnRecord ==
  ASSUME NEW p, p = [kind |-> p.kind, body |-> p.body, session |-> p.session, reply |-> p.reply],
         NEW session, NEW q, q = [p EXCEPT !.session = session]
  PROVE  q.kind = p.kind /\ q.body = p.body /\ q.reply = p.reply /\ q.session = session
  <1>1. p \in [kind : {p.kind}, body : {p.body}, session : {p.session}, reply : {p.reply}]
    OBVIOUS
  <1>2. q = [kind |-> p.kind, body |-> p.body, session |-> session, reply |-> p.reply]
    BY <1>1
  <1> QED
    BY <1>2

\* A command that goes on remembers the rest.
LEMMA StepRecord ==
  ASSUME NEW v, IsClient(v), NEW pc, NEW w, w = [v EXCEPT !.pc = pc]
  PROVE  w.pc = pc /\ w.session = v.session /\ w.sched = v.sched
  <1>1. v \in [pc : {v.pc}, id : {v.id}, sched : {v.sched}, session : {v.session}]
    BY DEF IsClient
  <1>2. w = [pc |-> pc, id |-> v.id, sched |-> v.sched, session |-> v.session]
    BY <1>1
  <1> QED
    BY <1>2

\* The next id is a new one.
LEMMA NextId ==
  ASSUME NEW n \in Nat
  PROVE  /\ n + 1 \in Nat /\ n + 1 \in 1 .. (n + 1)
         /\ \A i \in 1 .. n : i \in 1 .. (n + 1) /\ i # n + 1
  OBVIOUS

\* One entry of a function is written.
LEMMA Written ==
  ASSUME NEW S, NEW f, f = [x \in S |-> f[x]], NEW a \in S, NEW v, NEW g,
         g = [f EXCEPT ![a] = v]
  PROVE  /\ g = [x \in S |-> g[x]] /\ g[a] = v
         /\ \A x \in S \ {a} : g[x] = f[x]
  OBVIOUS

-----------------------------------------------------------------------------
\* The heartbeat jobs of a session are those that the command takes for them.
LEMMA BeatMeans ==
  ASSUME NEW s \in Sessions \ {""}, NEW j, Beat(j) => j.payload = Poll(j.payload.session)
  PROVE  j.name = "heartbeat" /\ j.payload = Poll(s) <=> Beat(j) /\ j.payload.session = s
  <1>1. /\ Poll(s).kind = "agent_turn" /\ Poll(s).body = "poll" /\ Poll(s).session = s
    BY DEF Poll
  <1> QED
    BY <1>1 DEF Beat

\* The same of the jobs in the store.
LEMMA BeatFacts ==
  ASSUME JobsInv, NEW s \in Sessions \ {""}, NEW j \in jobs
  PROVE  j \in Heartbeats(s) <=> Beat(j) /\ j.payload.session = s
  BY BeatMeans DEF JobsInv, JobOK, Heartbeats

\* A step that makes no heartbeat command busier and no heartbeat job more.
LEMMA AloneFrame ==
  ASSUME AloneInv, ~ disturbed' => ~ disturbed,
         \A c \in Callers : Busy(c)' => Busy(c) /\ client'[c] = client[c],
         \A c \in Callers : Busy(c) => client[c].session \in Sessions,
         \A s \in Sessions \ {""} : Heartbeats(s)' \subseteq Heartbeats(s),
         ~ disturbed => \A s \in Sessions \ {""} : Single(s)'
  PROVE  AloneInv'
  <1>1. SUFFICES ASSUME ~ disturbed
                 PROVE  /\ \A c, d \in Callers : Busy(c)' /\ Busy(d)' => c = d
                        /\ \A c \in Callers : Claim(c)'
    BY DEF AloneInv
  <1>2. \A c, d \in Callers : Busy(c)' /\ Busy(d)' => c = d
    BY <1>1 DEF AloneInv
  <1>3. ASSUME NEW c \in Callers PROVE Claim(c)'
    <2>1. CASE ~ Busy(c)'
      BY <2>1 DEF Claim, Busy
    <2>2. CASE Busy(c)'
      <3>1. Claim(c) /\ client'[c] = client[c] /\ client[c].session \in Sessions
        BY <1>1, <2>2 DEF AloneInv
      <3> QED
        BY <3>1 DEF Claim
    <2> QED
      BY <2>1, <2>2
  <1> QED
    BY <1>2, <1>3

\* What AddJob is called with.
Fit(name, sched, payload, once) ==
  /\ sched.future
  /\ payload = [kind |-> payload.kind, body |-> payload.body, session |-> payload.session,
                reply |-> payload.reply]
  /\ payload.kind \in {"exec", "agent_turn", "notify"} /\ payload.body # ""
  /\ payload.kind = "notify" => payload.reply # ""
  /\ (/\ name = "heartbeat" /\ payload.kind = "agent_turn" /\ payload.body = "poll"
      /\ payload.session \in Sessions \ {""}) =>
        payload = Poll(payload.session) /\ ~ once /\ sched.kind # "at"

\* What becomes of it.
Put(n, id, name, sched, payload) ==
  /\ n.id = id /\ n.sched = sched /\ n.on = TRUE
  /\ Beat(n) <=> /\ name = "heartbeat" /\ payload.kind = "agent_turn"
                 /\ payload.body = "poll" /\ payload.session \in Sessions \ {""}
  /\ Beat(n) => n.payload = payload

\* A new job is as the others, and is a heartbeat job only if it was meant to be.
LEMMA AddedJob ==
  ASSUME JobsInv, NEW name, NEW sched, NEW payload, NEW once,
         AddJob(name, sched, payload, once), Fit(name, sched, payload, once)
  PROVE  /\ JobsInv' /\ added' = added + 1
         /\ \E n : jobs' = jobs \cup {n} /\ Put(n, added + 1, name, sched, payload)
  <1>0. /\ sched.future
        /\ payload = [kind |-> payload.kind, body |-> payload.body, session |-> payload.session,
                      reply |-> payload.reply]
        /\ payload.kind \in {"exec", "agent_turn", "notify"} /\ payload.body # ""
        /\ payload.kind = "notify" => payload.reply # ""
        /\ (/\ name = "heartbeat" /\ payload.kind = "agent_turn" /\ payload.body = "poll"
            /\ payload.session \in Sessions \ {""}) =>
              payload = Poll(payload.session) /\ ~ once /\ sched.kind # "at"
    BY Zenon DEF Fit
  <1>a. PICK p : p = IF payload.kind = "agent_turn" /\ payload.session = ""
                     THEN [payload EXCEPT !.session = "own"] ELSE payload
    OBVIOUS
  <1>b. PICK n : n = [id |-> added + 1, name |-> name, sched |-> sched, on |-> TRUE, once |-> once,
                      payload |-> p]
    OBVIOUS
  <1>1. added' = added + 1 /\ jobs' = jobs \cup {n}
    BY <1>a, <1>b, Zenon DEF AddJob
  <1>2. "own" \notin Sessions
    BY AdminAssumption
  <1>3. /\ p.kind = payload.kind /\ p.body = payload.body /\ p.reply = payload.reply
        /\ IF payload.kind = "agent_turn" /\ payload.session = ""
           THEN p.session = "own" ELSE p = payload
    <2>1. CASE payload.kind = "agent_turn" /\ payload.session = ""
      <3>1. p = [payload EXCEPT !.session = "own"]
        BY <1>a, <2>1, Zenon
      <3> QED
        BY <1>0, <2>1, <3>1, OwnRecord, Zenon
    <2>2. CASE ~ (payload.kind = "agent_turn" /\ payload.session = "")
      BY <1>a, <2>2
    <2> QED
      BY <2>1, <2>2
  <1>4. PayloadOK(p)
    BY <1>0, <1>3 DEF PayloadOK
  <1>5. /\ n.id = added + 1 /\ n.name = name /\ n.sched = sched /\ n.on = TRUE
        /\ n.once = once /\ n.payload = p
    BY <1>b, Zenon
  <1>6. n.id = added + 1 /\ IsJob(n)
    BY <1>b, <1>5, Zenon DEF IsJob
  <1>7. /\ Beat(n) <=> /\ name = "heartbeat" /\ payload.kind = "agent_turn"
                       /\ payload.body = "poll" /\ payload.session \in Sessions \ {""}
        /\ Beat(n) => n.payload = payload
    BY <1>0, <1>2, <1>3, <1>5, Zenon DEF Beat
  <1>8. Beat(n) => n.payload = Poll(n.payload.session) /\ ~ n.once /\ n.on = TRUE /\ n.sched.kind # "at"
    BY <1>0, <1>5, <1>7, Zenon
  <1>9. added \in Nat /\ added' = added + 1 /\ n.id \in 1 .. added'
    <2>1. added \in Nat
      BY DEF JobsInv
    <2> QED
      BY <1>1, <1>6, <2>1, NextId, Zenon
  <1>10. JobOK(n)'
    BY <1>0, <1>4, <1>5, <1>8, <1>9, Zenon DEF JobOK, Beat
  <1>11. ASSUME NEW j \in jobs PROVE JobOK(j)' /\ j.id # n.id /\ IsJob(j)
    <2>1. JobOK(j) /\ IsJob(j)
      BY DEF JobsInv
    <2>2. j.id \in 1 .. added
      BY <2>1 DEF JobOK
    <2>3. j.id \in 1 .. added' /\ j.id # n.id
      BY <1>9, <1>6, <2>2, NextId, Zenon
    <2> QED
      BY <2>1, <2>3 DEF JobOK, Beat
  <1>12. \A i, j \in jobs' : i.id = j.id => i = j
    BY <1>1, <1>11 DEF JobsInv
  <1>13. \A j \in jobs' : IsJob(j) /\ JobOK(j)'
    BY <1>1, <1>6, <1>10, <1>11, Zenon
  <1>14. JobsInv'
    <2>1. added' \in Nat
      BY <1>9, NextId, Zenon
    <2> QED
      BY <2>1, <1>12, <1>13, Zenon DEF JobsInv
  <1>15. Put(n, added + 1, name, sched, payload)
    BY <1>5, <1>7, Zenon DEF Put
  <1> QED
    BY <1>1, <1>14, <1>15, Zenon

\* The heartbeat jobs after a new one.
LEMMA AddedBeats ==
  ASSUME JobsInv, JobsInv', NEW n, jobs' = jobs \cup {n}, NEW s \in Sessions \ {""}
  PROVE  /\ Heartbeats(s)' \subseteq Heartbeats(s) \cup {n}
         /\ Heartbeats(s) \subseteq Heartbeats(s)'
         /\ n \in Heartbeats(s)' <=> Beat(n) /\ n.payload.session = s
  <1>1. \A j \in jobs' : j \in Heartbeats(s)' <=> Beat(j) /\ j.payload.session = s
    BY BeatMeans DEF JobsInv, JobOK, Heartbeats, Beat
  <1> QED
    BY <1>1, BeatFacts DEF Heartbeats

\* No busier client, and no job that is not one of before.
LEMMA ClientsKept ==
  ASSUME ClientInv, NEW c \in Callers, NEW v, v.pc \notin {"adds", "removes"},
         client' = [client EXCEPT ![c] = v]
  PROVE  /\ client' = [d \in Callers |-> client'[d]]
         /\ \A d \in Callers : Busy(d)' => Busy(d) /\ client'[d] = client[d]
         /\ \A d \in Callers : Busy(d) => client[d].session \in Sessions
  <1>1. /\ client' = [d \in Callers |-> client'[d]] /\ client'[c] = v
        /\ \A d \in Callers \ {c} : client'[d] = client[d]
    BY Written, Zenon DEF ClientInv
  <1>2. \A d \in Callers : Busy(d)' => Busy(d) /\ client'[d] = client[d]
    BY <1>1 DEF Busy
  <1>3. \A d \in Callers : Busy(d) => client[d].session \in Sessions
    BY DEF ClientInv, ClientOK
  <1> QED
    BY <1>1, <1>2, <1>3

\* What a command remembers stays right while ids are not used again.
LEMMA ClientKept ==
  ASSUME ClientInv, NEW d \in Callers, Busy(d)' => Busy(d) /\ client'[d] = client[d],
         \A i \in 1 .. added : i \in 1 .. added', ~ disturbed' => ~ disturbed,
         ~ disturbed' => \A n \in jobs' : n.id \in 1 .. added =>
                           \E j \in jobs : n.id = j.id /\ n.payload = j.payload
  PROVE  ClientOK(d)'
  <1>1. ClientOK(d)
    BY DEF ClientInv
  <1>2. CASE ~ Busy(d)'
    BY <1>2 DEF ClientOK, Busy
  <1>3. CASE Busy(d)'
    BY <1>1, <1>3 DEF ClientOK
  <1> QED
    BY <1>2, <1>3

\* Jobs that go.
LEMMA FewerJobs ==
  ASSUME JobsInv, jobs' \subseteq jobs, added' = added
  PROVE  /\ JobsInv'
         /\ \A s : Heartbeats(s)' \subseteq Heartbeats(s)
         /\ \A i \in 1 .. added : i \in 1 .. added'
         /\ \A n \in jobs' : \E j \in jobs : n.id = j.id /\ n.payload = j.payload
  <1>1. \A j \in jobs : JobOK(j) => JobOK(j)'
    BY DEF JobOK, Beat
  <1> QED
    BY <1>1 DEF JobsInv, Heartbeats

-----------------------------------------------------------------------------
(***************************************************************************)
(* The steps.                                                              *)
(***************************************************************************)

\* The tool or the add command adds a job, not a heartbeat.
LEMMA OtherAdded ==
  ASSUME AdminInv, NoneByHand, NEW in \in Inputs, NEW name, NEW sched, NEW payload, NEW once,
         TaskOK(in, payload), name \in {in.name, payload.body}, name = in.name \/ in.name = "",
         sched.future, AddJob(name, sched, payload, once),
         UNCHANGED <<client, ensured, disturbed>>
  PROVE  AdminInv'
  <1>3. ~ (/\ name = "heartbeat" /\ payload.kind = "agent_turn"
           /\ payload.body = "poll" /\ payload.session \in Sessions \ {""})
    BY Zenon DEF TaskOK, NoneByHand
  <1>4. /\ payload = [kind |-> payload.kind, body |-> payload.body,
                      session |-> payload.session, reply |-> payload.reply]
        /\ payload.kind \in {"exec", "agent_turn", "notify"} /\ payload.body # ""
        /\ payload.kind = "notify" => payload.reply # ""
    BY Zenon DEF TaskOK
  <1>5. JobsInv /\ ClientInv /\ AloneInv
    BY DEF AdminInv
  <1>6. /\ JobsInv' /\ added' = added + 1
        /\ \E n : jobs' = jobs \cup {n} /\ Put(n, added + 1, name, sched, payload)
    <2>1. Fit(name, sched, payload, once)
      BY <1>3, <1>4, Zenon DEF Fit
    <2> QED
      BY <1>5, <2>1, AddedJob, Zenon
  <1>7. PICK n : jobs' = jobs \cup {n} /\ n.id = added + 1 /\ ~ Beat(n)
    BY <1>3, <1>6, Zenon DEF Put
  <1>8. \A t \in Sessions \ {""} : Heartbeats(t)' = Heartbeats(t)
    <2>1. \A t \in Sessions \ {""} :
            /\ Heartbeats(t)' \subseteq Heartbeats(t) \cup {n}
            /\ Heartbeats(t) \subseteq Heartbeats(t)'
            /\ n \in Heartbeats(t)' <=> Beat(n) /\ n.payload.session = t
      BY <1>5, <1>6, <1>7, AddedBeats, Zenon
    <2> QED
      BY <1>7, <2>1, Zenon
  <1>9. client' = client /\ ensured' = ensured
    BY Zenon
  <1>a. ~ disturbed' => ~ disturbed
    OBVIOUS
  <1>10. ClientInv'
    <2>1. added \in Nat
      BY <1>5 DEF JobsInv
    <2>2. \A i \in 1 .. added : i \in 1 .. added' /\ i # n.id
      <3>1. added' = added + 1 /\ n.id = added + 1
        BY <1>6, <1>7, Zenon
      <3> QED
        BY <2>1, <3>1, NextId, Zenon
    <2>3. \A m \in jobs' : m.id \in 1 .. added =>
            \E j \in jobs : m.id = j.id /\ m.payload = j.payload
      BY <1>7, <2>2, Zenon
    <2>4. \A c \in Callers : Busy(c)' => Busy(c) /\ client'[c] = client[c]
      BY <1>9, Zenon DEF Busy
    <2>5. \A c \in Callers : ClientOK(c)'
      BY <1>5, <1>a, <2>2, <2>3, <2>4, ClientKept, Zenon
    <2> QED
      BY <1>5, <1>9, <2>5, Zenon DEF ClientInv
  <1>11. AloneInv'
    <2>1. \A c \in Callers : Busy(c) => client[c].session \in Sessions
      BY <1>5, Zenon DEF ClientInv, ClientOK
    <2>2. \A c \in Callers : Busy(c)' => Busy(c) /\ client'[c] = client[c]
      BY <1>9, Zenon DEF Busy
    <2>3. ~ disturbed => \A t \in Sessions \ {""} : Single(t)'
      <3>1. \A t \in Sessions \ {""} : Single(t) => Single(t)'
        BY <1>8, <1>9, Zenon DEF Single
      <3> QED
        BY <1>5, <3>1, Zenon DEF AloneInv
    <2> QED
      BY <1>5, <1>8, <1>a, <2>1, <2>2, <2>3, AloneFrame, Zenon
  <1> QED
    BY <1>6, <1>10, <1>11, Zenon DEF AdminInv

\* A client that is no heartbeat command at work: jobs and heartbeats stay.
LEMMA ClientFreed ==
  ASSUME AdminInv, NEW c \in Callers, NEW v, v.pc \notin {"adds", "removes"},
         client' = [client EXCEPT ![c] = v],
         jobs' = jobs, added' = added, ensured' = ensured, disturbed' = disturbed
  PROVE  AdminInv'
  <1>1. JobsInv /\ ClientInv /\ AloneInv
    BY DEF AdminInv
  <1>2. /\ JobsInv'
        /\ \A i \in 1 .. added : i \in 1 .. added'
        /\ \A n \in jobs' : \E j \in jobs : n.id = j.id /\ n.payload = j.payload
    BY <1>1, FewerJobs, Zenon
  <1>3. \A s : Heartbeats(s)' = Heartbeats(s)
    BY DEF Heartbeats
  <1>4. /\ client' = [d \in Callers |-> client'[d]]
        /\ \A d \in Callers : Busy(d)' => Busy(d) /\ client'[d] = client[d]
        /\ \A d \in Callers : Busy(d) => client[d].session \in Sessions
    BY <1>1, ClientsKept, Zenon
  <1>5. \A d \in Callers : ClientOK(d)'
    BY <1>1, <1>2, <1>4, ClientKept, Zenon
  <1>6. ClientInv'
    BY <1>1, <1>4, <1>5, Zenon DEF ClientInv
  <1>7. ~ disturbed => \A s \in Sessions \ {""} : Single(s)'
    BY <1>1, <1>3, Zenon DEF AloneInv, Single
  <1>8. AloneInv'
    BY <1>1, <1>3, <1>4, <1>7, AloneFrame, Zenon
  <1> QED
    BY <1>2, <1>6, <1>8, Zenon DEF AdminInv

\* The tool adds a job.
LEMMA ToolAddsInv ==
  ASSUME AdminInv, NoneByHand, ToolAdds
  PROVE  AdminInv'
  <1>1. PICK s \in ToolSpecs : AddJob(s.name, s.sched, s.payload, s.once)
    BY Zenon DEF ToolAdds
  <1>2. /\ s \in {JobSpec(in, buildSchedule(in), buildTask(in)) : in \in Inputs}
        /\ s.sched.future /\ s.payload.kind # "error"
    BY Zenon DEF ToolSpecs, Accepted
  <1>3. PICK in \in Inputs : s = JobSpec(in, buildSchedule(in), buildTask(in))
    BY <1>2, Zenon
  <1>4. /\ s.payload = buildTask(in)
        /\ s.name \in {in.name, s.payload.body} /\ (s.name = in.name \/ in.name = "")
    <2>1. /\ s.payload = buildTask(in)
          /\ s.name = IF in.name = "" THEN buildTask(in).body ELSE in.name
      BY <1>3, Zenon DEF JobSpec
    <2> QED
      BY <2>1, Zenon
  <1>5. TaskOK(in, s.payload)
    BY <1>2, <1>4, TaskFacts, Zenon DEF buildTask
  <1>6. UNCHANGED <<client, ensured, disturbed>>
    BY Zenon DEF ToolAdds
  <1> QED
    BY <1>1, <1>2, <1>4, <1>5, <1>6, OtherAdded, Zenon

\* The add command adds a job.
LEMMA CommandAddsInv ==
  ASSUME AdminInv, NoneByHand, CommandAdds
  PROVE  AdminInv'
  <1> DEFINE sched(in) == parseScheduleFlags(in.expr, in.every, in.delay, Error)
  <1>1. PICK s \in CommandSpecs : AddJob(s.name, s.sched, s.payload, s.once)
    BY Zenon DEF CommandAdds
  <1>2. /\ s \in {JobSpec(in, sched(in), cronPayloadFromFlags(in)) :
                    in \in {i \in Inputs : i.name # ""}}
        /\ s.sched.future /\ s.payload.kind # "error"
    BY Zenon DEF CommandSpecs, Accepted
  <1> HIDE DEF sched
  <1>3. PICK in \in Inputs : s = JobSpec(in, sched(in), cronPayloadFromFlags(in))
    BY <1>2, Zenon
  <1>4. /\ s.payload = cronPayloadFromFlags(in)
        /\ s.name \in {in.name, s.payload.body} /\ (s.name = in.name \/ in.name = "")
    <2>1. /\ s.payload = cronPayloadFromFlags(in)
          /\ s.name = IF in.name = "" THEN cronPayloadFromFlags(in).body ELSE in.name
      BY <1>3, Zenon DEF JobSpec
    <2> QED
      BY <2>1, Zenon
  <1>5. TaskOK(in, s.payload)
    <2>1. cronPayloadFromFlags(in) \in {Nothing, Task(in, in.chat)} /\ Nothing.kind = "error"
      BY Zenon DEF cronPayloadFromFlags, Nothing
    <2>2. s.payload = Task(in, in.chat)
      BY <1>2, <1>4, <2>1, Zenon
    <2> QED
      BY <1>2, <2>2, TaskFacts, Zenon
  <1>6. UNCHANGED <<client, ensured, disturbed>>
    BY Zenon DEF CommandAdds
  <1> QED
    BY <1>1, <1>2, <1>4, <1>5, <1>6, OtherAdded, Zenon

\* A client that resolves a name, runs a job, or is killed.
LEMMA PassiveInv ==
  ASSUME AdminInv, NEW c \in Callers, Killed(c) \/ Resolves(c) \/ RunsNow(c)
  PROVE  AdminInv'
  <1>1. AtRest.pc = "idle"
    BY Zenon DEF AtRest
  <1>2. CASE Killed(c)
    BY <1>1, <1>2, ClientFreed, Zenon DEF Killed
  <1>3. CASE RunsNow(c)
    BY <1>1, <1>3, ClientFreed, Zenon DEF RunsNow
  <1>4. CASE Resolves(c)
    <2>1. PICK j \in jobs, verb \in {"remove", "run"} :
            client' = [client EXCEPT ![c] = [AtRest EXCEPT !.pc = verb, !.id = j.id]]
      BY <1>4, Zenon DEF Resolves
    <2>2. [AtRest EXCEPT !.pc = verb, !.id = j.id].pc = verb
      BY Zenon DEF AtRest
    <2>3. jobs' = jobs /\ added' = added /\ ensured' = ensured /\ disturbed' = disturbed
      BY <1>4, Zenon DEF Resolves
    <2> QED
      BY <2>1, <2>2, <2>3, ClientFreed, Zenon
  <1> QED
    BY <1>2, <1>3, <1>4

\* A job is removed.
LEMMA JobRemovedInv ==
  ASSUME AdminInv, NEW c \in Callers, JobRemoved(c)
  PROVE  AdminInv'
  <1>1. JobsInv /\ ClientInv /\ AloneInv
    BY DEF AdminInv
  <1>2. /\ jobs' = Without(client[c].id) /\ added' = added /\ disturbed' = disturbed
        /\ client' = [client EXCEPT ![c] = AtRest]
        /\ ensured' = [s \in Sessions |-> IF \E j \in Heartbeats(s) : j.id = client[c].id
                                          THEN Error ELSE ensured[s]]
    BY Zenon DEF JobRemoved
  <1>3. /\ JobsInv'
        /\ \A s : Heartbeats(s)' \subseteq Heartbeats(s)
        /\ \A i \in 1 .. added : i \in 1 .. added'
        /\ \A n \in jobs' : \E j \in jobs : n.id = j.id /\ n.payload = j.payload
    <2>1. jobs' \subseteq jobs
      BY <1>2, Zenon DEF Without
    <2> QED
      BY <1>1, <1>2, <2>1, FewerJobs, Zenon
  <1>4. AtRest.pc \notin {"adds", "removes"} /\ Error.kind = "error"
    BY Zenon DEF AtRest, Error
  <1>5. /\ client' = [d \in Callers |-> client'[d]]
        /\ \A d \in Callers : Busy(d)' => Busy(d) /\ client'[d] = client[d]
        /\ \A d \in Callers : Busy(d) => client[d].session \in Sessions
    BY <1>1, <1>2, <1>4, ClientsKept, Zenon
  <1>6. \A d \in Callers : ClientOK(d)'
    BY <1>1, <1>2, <1>3, <1>5, ClientKept, Zenon
  <1>7. ensured' = [s \in Sessions |-> ensured'[s]]
    BY <1>2, Zenon
  <1>8. ClientInv'
    BY <1>5, <1>6, <1>7, Zenon DEF ClientInv
  <1>9. ASSUME NEW s \in Sessions \ {""}, Single(s) PROVE Single(s)'
    <2>1. \A i, j \in Heartbeats(s)' : i = j
      BY <1>3, <1>9, Zenon DEF Single
    <2>2. CASE \E j \in Heartbeats(s) : j.id = client[c].id
      <3>1. ensured'[s] = Error
        BY <1>2, <2>2, Zenon
      <3> QED
        BY <1>4, <2>1, <3>1, Zenon DEF Single
    <2>3. CASE ~ \E j \in Heartbeats(s) : j.id = client[c].id
      <3>1. ensured'[s] = ensured[s]
        BY <1>2, <2>3, Zenon
      <3>2. Heartbeats(s) \subseteq Heartbeats(s)'
        BY <1>2, <2>3 DEF Heartbeats, Without
      <3> QED
        BY <1>9, <2>1, <3>1, <3>2, Zenon DEF Single
    <2> QED
      BY <2>2, <2>3, Zenon
  <1>10. ~ disturbed => \A s \in Sessions \ {""} : Single(s)'
    BY <1>1, <1>9, Zenon DEF AloneInv
  <1>11. AloneInv'
    BY <1>1, <1>2, <1>3, <1>5, <1>10, AloneFrame, Zenon
  <1> QED
    BY <1>3, <1>8, <1>11, Zenon DEF AdminInv

\* A list in memory stays right while ids are not used again.
LEMMA StoreKept ==
  ASSUME NEW S, StoreOK(S), \A i \in 1 .. added : i \in 1 .. added'
  PROVE  StoreOK(S)'
  <1>1. \A j : JobOK(j) => JobOK(j)'
    BY DEF JobOK, Beat, Poll
  <1>2. \A j : IsJob(j)' <=> IsJob(j)
    BY DEF IsJob
  <1> QED
    BY <1>1, <1>2, Zenon DEF StoreOK

\* Every list in memory is the store of now or of before, or the list that it was.
LEMMA MemoryKept ==
  ASSUME JobsInv, JobsInv', MemoryInv, \A i \in 1 .. added : i \in 1 .. added',
         loaded' \in {loaded, jobs, jobs'},
         \A r \in running' : r \in running \/ r.by = "daemon" \/ r.view = jobs
  PROVE  MemoryInv'
  <1>1. StoreOK(jobs) /\ StoreOK(loaded)
    BY Zenon DEF JobsInv, StoreOK, MemoryInv
  <1>2. \A S : StoreOK(S) => StoreOK(S)'
    BY StoreKept, Zenon
  <1>3. ASSUME NEW S, S \in {loaded, jobs} PROVE StoreOK(S)'
    BY <1>1, <1>2, <1>3, Zenon
  <1>4. PICK L, N : L = loaded' /\ N = jobs'
    BY Zenon
  <1>5. StoreOK(N)'
    <2>1. /\ \A j \in N : IsJob(j)' /\ JobOK(j)'
          /\ \A i, j \in N : i.id = j.id => i = j
      BY <1>4, Zenon DEF JobsInv
    <2> QED
      BY <2>1, Zenon DEF StoreOK
  <1>6. StoreOK(L)'
    BY <1>3, <1>4, <1>5, Zenon
  <1>7. StoreOK(loaded)'
    <2>1. /\ \A j \in loaded' : IsJob(j)' /\ JobOK(j)'
          /\ \A i, j \in loaded' : i.id = j.id => i = j
      BY <1>4, <1>6, Zenon DEF StoreOK
    <2> QED
      BY <2>1, Zenon DEF StoreOK
  <1>8. ASSUME NEW r \in running', r.by # "daemon" PROVE StoreOK(r.view)'
    BY <1>1, <1>2, <1>8, Zenon DEF MemoryInv
  <1> QED
    BY <1>7, <1>8, Zenon DEF MemoryInv

\* What Off makes of a job; a heartbeat job it leaves as it is.
LEMMA OffJob ==
  ASSUME NEW j, IsJob(j), JobOK(j), NEW id
  PROVE  /\ IsJob(Off(j, id)) /\ JobOK(Off(j, id))
         /\ Off(j, id).id = j.id /\ Off(j, id).name = j.name
         /\ Off(j, id).payload = j.payload
         /\ Beat(j) => Off(j, id) = j
  <1>1. PICK on : on = (j.on /\ ~ (j.id = id /\ j.sched.kind = "at"))
    BY Zenon
  <1>2. PICK n : n = Off(j, id)
    BY Zenon
  <1>3. n = [j EXCEPT !.on = on]
    BY <1>1, <1>2, Zenon DEF Off
  <1>4. /\ IsJob(n) /\ n.on = on
        /\ n.id = j.id /\ n.name = j.name /\ n.sched = j.sched
        /\ n.once = j.once /\ n.payload = j.payload
    BY <1>3, OffRecord
  <1>5. Beat(n) <=> Beat(j)
    BY <1>4, Zenon DEF Beat
  <1>6. ASSUME Beat(j) PROVE n = j
    <2>1. j.on = TRUE /\ j.sched.kind # "at"
      BY <1>6, Zenon DEF JobOK
    <2>2. n.on = j.on
      BY <1>1, <1>4, <2>1, Zenon
    <2> QED
      BY <1>4, <2>2, Zenon DEF IsJob
  <1>7. JobOK(n)
    <2>1. n.id \in 1 .. added /\ PayloadOK(n.payload) /\ (n.on => n.sched.future)
      BY <1>1, <1>4, Zenon DEF JobOK
    <2>2. Beat(n) => n.payload = Poll(n.payload.session) /\ ~ n.once /\ n.on = TRUE
                     /\ n.sched.kind # "at"
      BY <1>5, <1>6, Zenon DEF JobOK
    <2> QED
      BY <2>1, <2>2, Zenon DEF JobOK
  <1> QED
    BY <1>2, <1>4, <1>6, <1>7, Zenon

\* A list with a job turned off, and perhaps one less.
LEMMA OffStore ==
  ASSUME NEW S, StoreOK(S), NEW K, K \subseteq S, NEW id, NEW T, T = {Off(j, id) : j \in K}
  PROVE  StoreOK(T)
  <1>1. \A j \in S : /\ IsJob(Off(j, id)) /\ JobOK(Off(j, id)) /\ Off(j, id).id = j.id
    BY OffJob, Zenon DEF StoreOK
  <1>2. \A n \in T : \E j \in S : n = Off(j, id)
    BY Zenon
  <1>3. ASSUME NEW m \in T, NEW n \in T, m.id = n.id PROVE m = n
    <2>1. PICK i \in S, j \in S : m = Off(i, id) /\ n = Off(j, id)
      BY <1>2, Zenon
    <2>2. i.id = j.id
      BY <1>1, <1>3, <2>1, Zenon
    <2> QED
      BY <2>1, <2>2, Zenon DEF StoreOK
  <1>4. \A n \in T : IsJob(n) /\ JobOK(n)
    BY <1>1, <1>2, Zenon
  <1>5. \A m, n \in T : m.id = n.id => m = n
    BY <1>3, Zenon
  <1> QED
    BY <1>4, <1>5, Zenon DEF StoreOK

\* A list with a job turned off is saved.
LEMMA OffSaved ==
  ASSUME JobsInv, NEW S, StoreOK(S), NEW K, K \subseteq S, NEW id,
         jobs' = {Off(j, id) : j \in K}, added' = added
  PROVE  JobsInv'
  <1>1. PICK T : T = {Off(j, id) : j \in K}
    BY Zenon
  <1>2. StoreOK(T)
    BY <1>1, OffStore, Zenon
  <1>3. StoreOK(T)'
    BY <1>2, StoreKept, Zenon
  <1>4. /\ \A j \in jobs' : IsJob(j)' /\ JobOK(j)'
        /\ \A i, j \in jobs' : i.id = j.id => i = j
    BY <1>1, <1>3, Zenon DEF StoreOK
  <1>5. added' \in Nat
    BY Zenon DEF JobsInv
  <1> QED
    BY <1>4, <1>5, Zenon DEF JobsInv

\* The list of the store with a job turned off: every heartbeat job is as it was.
LEMMA TurnedOff ==
  ASSUME AdminInv, NEW id, NEW K, K \subseteq jobs, \A j \in jobs : Beat(j) => j \in K,
         jobs' = {Off(j, id) : j \in K},
         added' = added, client' = client, ensured' = ensured, ~ disturbed' => ~ disturbed
  PROVE  AdminInv'
  <1>1. JobsInv /\ ClientInv /\ AloneInv
    BY DEF AdminInv
  <1>2. StoreOK(jobs)
    BY <1>1, Zenon DEF JobsInv, StoreOK
  <1>3. \A j \in jobs : /\ Off(j, id).id = j.id /\ Off(j, id).name = j.name
                        /\ Off(j, id).payload = j.payload
                        /\ Beat(j) => Off(j, id) = j
    BY <1>2, OffJob, Zenon DEF StoreOK
  <1>4. JobsInv'
    BY <1>1, <1>2, OffSaved, Zenon
  <1>5. \A n \in jobs' : \E j \in jobs : n = Off(j, id)
    BY Zenon
  <1>6. \A n \in jobs' : \E j \in jobs : n.id = j.id /\ n.payload = j.payload
    BY <1>3, <1>5, Zenon
  <1>7. ClientInv'
    <2>1. \A c \in Callers : Busy(c)' => Busy(c) /\ client'[c] = client[c]
      BY Zenon DEF Busy
    <2>2. \A i \in 1 .. added : i \in 1 .. added'
      BY Zenon
    <2>3. \A c \in Callers : ClientOK(c)'
      BY <1>1, <1>6, <2>1, <2>2, ClientKept, Zenon
    <2> QED
      BY <1>1, <2>3, Zenon DEF ClientInv
  <1>8. ASSUME NEW s \in Sessions \ {""} PROVE Heartbeats(s)' = Heartbeats(s)
    <2>1. ASSUME NEW j \in Heartbeats(s) PROVE j \in Heartbeats(s)'
      <3>1. j \in jobs /\ j.name = "heartbeat" /\ j.payload = Poll(s)
        BY Zenon DEF Heartbeats
      <3>2. Beat(j)
        BY <1>1, <3>1, BeatFacts, Zenon
      <3>3. j \in jobs'
        BY <1>3, <3>1, <3>2, Zenon
      <3> QED
        BY <3>1, <3>3, Zenon DEF Heartbeats, Poll
    <2>2. ASSUME NEW n \in Heartbeats(s)' PROVE n \in Heartbeats(s)
      <3>1. n \in jobs' /\ n.name = "heartbeat" /\ n.payload = Poll(s)
        BY Zenon DEF Heartbeats, Poll
      <3>2. PICK j \in jobs : n = Off(j, id)
        BY <1>5, <3>1, Zenon
      <3>3. j.name = "heartbeat" /\ j.payload = Poll(s)
        BY <1>3, <3>1, <3>2, Zenon
      <3>4. j \in Heartbeats(s)
        BY <3>3, Zenon DEF Heartbeats
      <3>5. Beat(j)
        BY <1>1, <3>4, BeatFacts, Zenon
      <3> QED
        BY <1>3, <3>2, <3>4, <3>5, Zenon
    <2> QED
      BY <2>1, <2>2, Zenon
  <1>9. AloneInv'
    <2>1. \A c \in Callers : Busy(c) => client[c].session \in Sessions
      BY <1>1, Zenon DEF ClientInv, ClientOK
    <2>2. \A c \in Callers : Busy(c)' => Busy(c) /\ client'[c] = client[c]
      BY Zenon DEF Busy
    <2>3. \A s \in Sessions \ {""} : Single(s) => Single(s)'
      BY <1>8, Zenon DEF Single
    <2>4. ~ disturbed => \A s \in Sessions \ {""} : Single(s)'
      BY <1>1, <2>3, Zenon DEF AloneInv
    <2> QED
      BY <1>1, <1>8, <2>1, <2>2, <2>4, AloneFrame, Zenon
  <1> QED
    BY <1>4, <1>7, <1>9, Zenon DEF AdminInv

\* A job fires: it is advanced, or off, in the list that was just loaded.
LEMMA FiresInv ==
  ASSUME AdminInv, MemoryInv, Fires
  PROVE  AdminInv' /\ MemoryInv'
  <1>1. PICK due \in jobs :
          /\ jobs' = {Off(j, due.id) : j \in jobs} /\ loaded' = jobs'
          /\ running' = running \cup {[id |-> due.id, by |-> "daemon", view |-> {}]}
    BY Zenon DEF Fires
  <1>2. added' = added /\ client' = client /\ ensured' = ensured /\ disturbed' = disturbed
    BY Zenon DEF Fires
  <1>3. PICK K : K = jobs
    BY Zenon
  <1>4. AdminInv'
    <2>1. jobs' = {Off(j, due.id) : j \in K} /\ K \subseteq jobs /\ \A j \in jobs : Beat(j) => j \in K
      BY <1>1, <1>3, Zenon
    <2> QED
      BY <1>2, <2>1, TurnedOff, Zenon
  <1>5. MemoryInv'
    <2>1. [id |-> due.id, by |-> "daemon", view |-> {}].by = "daemon"
      BY Zenon
    <2>3. \A r \in running' : r \in running \/ r.by = "daemon" \/ r.view = jobs
      BY <1>1, <2>1, Zenon
    <2>2. \A i \in 1 .. added : i \in 1 .. added'
      BY <1>2, Zenon
    <2> QED
      BY <1>1, <1>4, <2>2, <2>3, MemoryKept, Zenon DEF AdminInv
  <1> QED
    BY <1>4, <1>5

\* The handler returns, and the list that the process has in memory is saved: the
\* store as it is, and then every heartbeat job is kept, or an older one.
LEMMA JobEndsInv ==
  ASSUME AdminInv, MemoryInv, JobEnds
  PROVE  AdminInv' /\ MemoryInv'
  <1>1. JobsInv /\ ClientInv /\ AloneInv
    BY DEF AdminInv
  <1>a. PICK r \in running : \E base, K :
          /\ base = IF r.by = "daemon" THEN loaded ELSE r.view
          /\ K = {j \in base : j.id = r.id => ~ j.once}
          /\ running' = running \ {r} /\ jobs' = {Off(j, r.id) : j \in K}
          /\ loaded' = (IF r.by = "daemon" THEN jobs' ELSE loaded)
          /\ disturbed' = (disturbed \/ base # jobs)
    <2>1. PICK r \in running :
            LET base == IF r.by = "daemon" THEN loaded ELSE r.view
                kept == {j \in base : j.id = r.id => ~ j.once}
            IN  /\ running' = running \ {r}
                /\ jobs' = {Off(j, r.id) : j \in kept}
                /\ loaded' = IF r.by = "daemon" THEN jobs' ELSE loaded
                /\ disturbed' = (disturbed \/ base # jobs)
      BY Zenon DEF JobEnds
    <2>2. PICK base : base = IF r.by = "daemon" THEN loaded ELSE r.view
      BY Zenon
    <2>3. PICK K : K = {j \in base : j.id = r.id => ~ j.once}
      BY Zenon
    <2>4. \E K0 :
            /\ K0 = {j \in base : j.id = r.id => ~ j.once}
            /\ running' = running \ {r} /\ jobs' = {Off(j, r.id) : j \in K0}
            /\ loaded' = (IF r.by = "daemon" THEN jobs' ELSE loaded)
            /\ disturbed' = (disturbed \/ base # jobs)
      BY <2>1, <2>2, <2>3, Zenon
    <2> QED
      BY <2>1, <2>2, <2>4, Zenon
  <1>2. PICK base, K :
          /\ base = IF r.by = "daemon" THEN loaded ELSE r.view
          /\ K = {j \in base : j.id = r.id => ~ j.once}
          /\ running' = running \ {r} /\ jobs' = {Off(j, r.id) : j \in K}
          /\ loaded' = (IF r.by = "daemon" THEN jobs' ELSE loaded)
          /\ disturbed' = (disturbed \/ base # jobs)
    BY <1>a, Zenon
  <1>3. added' = added /\ client' = client /\ ensured' = ensured
    BY Zenon DEF JobEnds
  <1>4. StoreOK(base) /\ K \subseteq base
    BY <1>2, Zenon DEF MemoryInv
  <1>5. JobsInv'
    <2>1. jobs' = {Off(j, r.id) : j \in K}
      BY <1>2, Zenon
    <2> QED
      BY <1>1, <1>3, <1>4, <2>1, OffSaved, Zenon
  <1>6. ASSUME base = jobs PROVE AdminInv'
    <2>1. (disturbed' <=> disturbed) /\ K \subseteq jobs
      BY <1>2, <1>4, <1>6, Zenon
    <2>2. \A j \in jobs : Beat(j) => j \in K
      BY <1>1, <1>2, <1>6, Zenon DEF JobsInv, JobOK
    <2>3. jobs' = {Off(j, r.id) : j \in K}
      BY <1>2, Zenon
    <2>4. ~ disturbed' => ~ disturbed
      BY <2>1, Zenon
    <2> QED
      BY <1>3, <2>1, <2>2, <2>3, <2>4, TurnedOff, Zenon
  <1>7. ASSUME base # jobs PROVE AdminInv'
    <2>1. disturbed'
      BY <1>2, <1>7, Zenon
    <2>2. AloneInv'
      BY <2>1, Zenon DEF AloneInv
    <2>3. \A c \in Callers : Busy(c)' => Busy(c) /\ client'[c] = client[c]
      BY <1>3, Zenon DEF Busy
    <2>4. \A c \in Callers : ClientOK(c)'
      BY <1>1, <1>3, <2>1, <2>3, ClientKept, Zenon
    <2>5. ClientInv'
      BY <1>1, <1>3, <2>4, Zenon DEF ClientInv
    <2> QED
      BY <1>5, <2>2, <2>5, Zenon DEF AdminInv
  <1>8. MemoryInv'
    <2>1. loaded' \in {loaded, jobs, jobs'}
      BY <1>2, Zenon
    <2>2. \A q \in running' : q \in running \/ q.by = "daemon" \/ q.view = jobs
      BY <1>2, Zenon
    <2>3. \A i \in 1 .. added : i \in 1 .. added'
      BY <1>3, Zenon
    <2> QED
      BY <1>1, <1>5, <2>1, <2>2, <2>3, MemoryKept, Zenon
  <1> QED
    BY <1>6, <1>7, <1>8, Zenon

\* A heartbeat command alone: the others are idle or do something else.
LEMMA Alone ==
  ASSUME AloneInv, ~ disturbed, NEW c \in Callers, Busy(c), NEW d \in Callers \ {c}
  PROVE  ~ Busy(d)
  BY Zenon DEF AloneInv

\* The heartbeat command removes the job that it found.
LEMMA HeartbeatRemovesInv ==
  ASSUME AdminInv, NEW c \in Callers, HeartbeatRemoves(c)
  PROVE  AdminInv'
  <1>0. PICK id, session : id = client[c].id /\ session = client[c].session
    BY Zenon
  <1> DEFINE next == IF id \in Ids THEN [client[c] EXCEPT !.pc = "adds"] ELSE AtRest
  <1>1. JobsInv /\ ClientInv /\ AloneInv
    BY DEF AdminInv
  <1>2. /\ client[c].pc = "removes" /\ jobs' = Without(id) /\ added' = added
        /\ disturbed' = disturbed /\ ensured' = [ensured EXCEPT ![session] = Error]
        /\ client' = [client EXCEPT ![c] = next]
    BY <1>0, Zenon DEF HeartbeatRemoves
  <1>3. ClientOK(c) /\ Busy(c)
    BY <1>1, <1>2, Zenon DEF ClientInv, Busy
  <1>4. session \in Sessions /\ client[c].sched.kind # "at"
    BY <1>0, <1>3, Zenon DEF ClientOK
  <1>5. /\ JobsInv'
        /\ \A s : Heartbeats(s)' \subseteq Heartbeats(s)
        /\ \A i \in 1 .. added : i \in 1 .. added'
        /\ \A n \in jobs' : \E j \in jobs : n.id = j.id /\ n.payload = j.payload
    <2>1. jobs' \subseteq jobs
      BY <1>2, Zenon DEF Without
    <2> QED
      BY <1>1, <1>2, <2>1, FewerJobs, Zenon
  <1>6. Error.kind = "error" /\ AtRest.pc = "idle"
    BY Zenon DEF AtRest, Error
  <1>7. /\ client' = [d \in Callers |-> client'[d]] /\ client'[c] = next
        /\ \A d \in Callers \ {c} : client'[d] = client[d]
    <2> HIDE DEF next
    <2>1. client = [d \in Callers |-> client[d]]
      BY <1>1, Zenon DEF ClientInv
    <2> QED
      BY <1>2, <2>1, Written, Zenon
  <1>8. /\ ensured' = [s \in Sessions |-> ensured'[s]] /\ ensured'[session] = Error
        /\ \A s \in Sessions \ {session} : ensured'[s] = ensured[s]
    <2>1. ensured = [s \in Sessions |-> ensured[s]]
      BY <1>1, Zenon DEF ClientInv
    <2> QED
      BY <1>2, <1>4, <2>1, Written, Zenon
  <1>9. \/ client'[c].pc = "idle"
        \/ /\ client'[c].pc = "adds" /\ client'[c].session = session
           /\ client'[c].sched = client[c].sched
    <2>1. CASE id \in Ids
      <3>1. IsClient(client[c]) /\ client'[c] = [client[c] EXCEPT !.pc = "adds"]
        BY <1>2, <1>3, <1>7, <2>1, Zenon DEF ClientOK
      <3>2. PICK v : v = client[c]
        BY Zenon
      <3>3. PICK w : w = [v EXCEPT !.pc = "adds"]
        BY Zenon
      <3>4. w.pc = "adds" /\ w.session = v.session /\ w.sched = v.sched
        <4>1. IsClient(v)
          BY <3>1, <3>2, Zenon
        <4> QED
          BY <3>3, <4>1, StepRecord
      <3>5. client'[c] = w
        BY <3>1, <3>2, <3>3, Zenon
      <3> QED
        BY <1>0, <3>2, <3>4, <3>5, Zenon
    <2>2. CASE id \notin Ids
      BY <1>6, <1>7, <2>2, Zenon
    <2> QED
      BY <2>1, <2>2, Zenon
  <1>10. ASSUME NEW d \in Callers PROVE ClientOK(d)'
    <2>1. CASE d = c
      BY <1>4, <1>9, <2>1, Zenon DEF ClientOK, Busy
    <2>2. CASE d # c
      <3>1. Busy(d)' => Busy(d) /\ client'[d] = client[d]
        BY <1>7, <2>2, Zenon DEF Busy
      <3> QED
        BY <1>1, <1>2, <1>5, <3>1, ClientKept, Zenon
    <2> QED
      BY <2>1, <2>2, Zenon
  <1>11. ClientInv'
    BY <1>7, <1>8, <1>10, Zenon DEF ClientInv
  <1>12. ASSUME ~ disturbed
         PROVE  /\ \A d, e \in Callers : Busy(d)' /\ Busy(e)' => d = e
                /\ \A d \in Callers : Claim(d)'
                /\ \A s \in Sessions \ {""} : Single(s)'
    <2>1. \A d \in Callers \ {c} : ~ Busy(d)'
      <3>1. \A d \in Callers \ {c} : ~ Busy(d)
        BY <1>1, <1>3, <1>12, Alone, Zenon
      <3> QED
        BY <1>7, <3>1, Zenon DEF Busy
    <2>2. \A d \in Callers \ {c} : Claim(d)'
      BY <2>1, Zenon DEF Claim, Busy
    <2>3. Claim(c)'
      <3>1. session # "" => Heartbeats(session)' = {}
        <4>1. Claim(c)
          BY <1>1, <1>12, Zenon DEF AloneInv
        <4>2. session # "" => \A j \in Heartbeats(session) : j.id = id
          BY <1>0, <1>2, <4>1, Zenon DEF Claim
        <4>3. \A j \in jobs' : j.id # id
          BY <1>2, Zenon DEF Without
        <4>4. Heartbeats(session)' \subseteq jobs' /\ Heartbeats(session)' \subseteq Heartbeats(session)
          BY <1>5, Zenon DEF Heartbeats
        <4> QED
          BY <4>2, <4>3, <4>4, Zenon
      <3> QED
        BY <1>9, <3>1, Zenon DEF Claim
    <2>4. ASSUME NEW s \in Sessions \ {""} PROVE Single(s)'
      <3>1. Single(s)
        BY <1>1, <1>12, Zenon DEF AloneInv
      <3>2. \A i, j \in Heartbeats(s)' : i = j
        BY <1>5, <3>1, Zenon DEF Single
      <3>3. CASE s = session
        BY <1>6, <1>8, <3>2, <3>3, Zenon DEF Single
      <3>4. CASE s # session
        <4>1. \A j \in jobs : j.id = id => j.payload.session = session
          BY <1>0, <1>2, <1>3, <1>12, Zenon DEF ClientOK
        <4>2. \A j \in Heartbeats(s) : j \in jobs /\ j.payload.session = s
          <5>1. Heartbeats(s) \subseteq jobs
            BY Zenon DEF Heartbeats
          <5> QED
            BY <1>1, <5>1, BeatFacts, Zenon
        <4>3. \A j \in Heartbeats(s) : j.id # id
          BY <3>4, <4>1, <4>2, Zenon
        <4>4. Heartbeats(s) \subseteq Heartbeats(s)'
          BY <1>2, <4>3, Zenon DEF Heartbeats, Without, Poll
        <4>5. ensured'[s] = ensured[s]
          BY <1>8, <3>4, Zenon
        <4> QED
          BY <3>1, <3>2, <4>4, <4>5, Zenon DEF Single
      <3> QED
        BY <3>3, <3>4, Zenon
    <2> QED
      BY <2>1, <2>2, <2>3, <2>4, Zenon
  <1>13. AloneInv'
    BY <1>2, <1>12, Zenon DEF AloneInv
  <1> QED
    BY <1>5, <1>11, <1>13, Zenon DEF AdminInv

\* The heartbeat command adds the job: the only one of its session.
LEMMA HeartbeatAddsInv ==
  ASSUME AdminInv, NEW c \in Callers, HeartbeatAdds(c)
  PROVE  AdminInv'
  <1>0. PICK sched, session : sched = client[c].sched /\ session = client[c].session
    BY Zenon
  <1>1. JobsInv /\ ClientInv /\ AloneInv
    BY DEF AdminInv
  <1>2. client[c].pc = "adds" /\ client' = [client EXCEPT ![c] = AtRest] /\ disturbed' = disturbed
    BY Zenon DEF HeartbeatAdds
  <1>3. AtRest.pc \notin {"adds", "removes"} /\ AtRest.pc = "idle"
    BY Zenon DEF AtRest
  <1>4. CASE ~ sched.future
    <2>1. jobs' = jobs /\ added' = added /\ ensured' = ensured
      BY <1>0, <1>4, Zenon DEF HeartbeatAdds
    <2> QED
      BY <1>2, <1>3, <2>1, ClientFreed, Zenon
  <1>5. CASE sched.future
    <2>1. /\ AddJob("heartbeat", sched, Poll(session), FALSE)
          /\ ensured' = [ensured EXCEPT ![session] = sched]
      BY <1>0, <1>5, Zenon DEF HeartbeatAdds
    <2>2. Busy(c) /\ session \in Sessions /\ sched.kind # "at"
      BY <1>0, <1>1, <1>2, Zenon DEF ClientInv, ClientOK, Busy
    <2>3. PICK p : p = Poll(session)
      BY Zenon
    <2>4. /\ p.kind = "agent_turn" /\ p.body = "poll" /\ p.session = session /\ p.reply = ""
          /\ p = [kind |-> p.kind, body |-> p.body, session |-> p.session, reply |-> p.reply]
      BY <2>3, PayRecord DEF Poll
    <2>5. /\ JobsInv' /\ added' = added + 1
          /\ \E n : jobs' = jobs \cup {n} /\ Put(n, added + 1, "heartbeat", sched, p)
      <3>1. AddJob("heartbeat", sched, p, FALSE)
        BY <2>1, <2>3, Zenon
      <3>2. /\ p.kind \in {"exec", "agent_turn", "notify"} /\ p.body # ""
            /\ p.kind = "notify" => p.reply # ""
            /\ p = [kind |-> p.kind, body |-> p.body, session |-> p.session, reply |-> p.reply]
        BY <2>4, Zenon
      <3>3. PICK name, once : name = "heartbeat" /\ once = FALSE
        BY Zenon
      <3>4. name = "heartbeat" /\ p.kind = "agent_turn" /\ p.body = "poll"
              /\ p.session \in Sessions \ {""} =>
                p = Poll(p.session) /\ ~ once /\ sched.kind # "at"
        BY <2>2, <2>3, <2>4, <3>3, Zenon
      <3>5. AddJob(name, sched, p, once)
        BY <3>1, <3>3, Zenon
      <3>6. /\ JobsInv' /\ added' = added + 1
            /\ \E n : jobs' = jobs \cup {n} /\ Put(n, added + 1, name, sched, p)
        <4>1. Fit(name, sched, p, once)
          BY <1>5, <3>2, <3>4, Zenon DEF Fit
        <4> QED
          BY <1>1, <3>5, <4>1, AddedJob, Zenon
      <3> QED
        BY <3>3, <3>6, Zenon
    <2>6. PICK n : /\ jobs' = jobs \cup {n} /\ n.id = added + 1 /\ n.sched = sched /\ n.on = TRUE
                   /\ Beat(n) <=> session # ""
                   /\ Beat(n) => n.payload.session = session
      BY <2>2, <2>4, <2>5, Zenon DEF Put
    <2>7. \A s \in Sessions \ {""} :
            /\ Heartbeats(s)' \subseteq Heartbeats(s) \cup {n}
            /\ Heartbeats(s) \subseteq Heartbeats(s)'
            /\ n \in Heartbeats(s)' <=> Beat(n) /\ n.payload.session = s
      BY <1>1, <2>5, <2>6, AddedBeats, Zenon
    <2>8. /\ client' = [d \in Callers |-> client'[d]]
          /\ \A d \in Callers : Busy(d)' => Busy(d) /\ client'[d] = client[d]
          /\ \A d \in Callers : Busy(d) => client[d].session \in Sessions
      BY <1>1, <1>2, <1>3, ClientsKept, Zenon
    <2>9. /\ ensured' = [s \in Sessions |-> ensured'[s]] /\ ensured'[session] = sched
          /\ \A s \in Sessions \ {session} : ensured'[s] = ensured[s]
      <3>1. ensured = [s \in Sessions |-> ensured[s]]
        BY <1>1, Zenon DEF ClientInv
      <3> QED
        BY <2>1, <2>2, <3>1, Written, Zenon
    <2>10. ClientInv'
      <3>1. added \in Nat
        BY <1>1 DEF JobsInv
      <3>2. \A i \in 1 .. added : i \in 1 .. added' /\ i # n.id
        <4>1. added' = added + 1 /\ n.id = added + 1
          BY <2>5, <2>6, Zenon
        <4> QED
          BY <3>1, <4>1, NextId, Zenon
      <3>3. \A m \in jobs' : m.id \in 1 .. added =>
              \E j \in jobs : m.id = j.id /\ m.payload = j.payload
        BY <2>6, <3>2, Zenon
      <3>4. \A d \in Callers : ClientOK(d)'
        BY <1>1, <1>2, <2>8, <3>2, <3>3, ClientKept, Zenon
      <3> QED
        BY <2>8, <2>9, <3>4, Zenon DEF ClientInv
    <2>11. ASSUME ~ disturbed
           PROVE  /\ \A d, e \in Callers : Busy(d)' /\ Busy(e)' => d = e
                  /\ \A d \in Callers : Claim(d)'
                  /\ \A s \in Sessions \ {""} : Single(s)'
      <3>1. \A d \in Callers : ~ Busy(d)'
        <4>1. \A d \in Callers \ {c} : ~ Busy(d)
          BY <1>1, <2>2, <2>11, Alone, Zenon
        <4>2. client'[c] = AtRest
          BY <1>1, <1>2, Written, Zenon DEF ClientInv
        <4>3. ~ Busy(c)'
          BY <1>3, <4>2, Zenon DEF Busy
        <4> QED
          BY <2>8, <4>1, <4>3, Zenon
      <3>2. \A d \in Callers : Claim(d)'
        BY <3>1, Zenon DEF Claim, Busy
      <3>3. ASSUME NEW s \in Sessions \ {""} PROVE Single(s)'
        <4>1. Single(s) /\ Claim(c)
          BY <1>1, <2>11, Zenon DEF AloneInv
        <4>2. CASE s = session
          <5>1. Heartbeats(s) = {}
            BY <1>0, <1>2, <4>1, <4>2, Zenon DEF Claim
          <5>2. n \in Heartbeats(s)' /\ Heartbeats(s)' \subseteq {n}
            BY <2>6, <2>7, <4>2, <5>1, Zenon
          <5>3. n.sched = ensured'[s] /\ n.on
            BY <2>6, <2>9, <4>2, Zenon
          <5> QED
            BY <5>2, <5>3, Zenon DEF Single
        <4>3. CASE s # session
          <5>1. Heartbeats(s)' = Heartbeats(s)
            BY <2>6, <2>7, <4>3, Zenon
          <5>2. ensured'[s] = ensured[s]
            BY <2>9, <4>3, Zenon
          <5> QED
            BY <4>1, <5>1, <5>2, Zenon DEF Single
        <4> QED
          BY <4>2, <4>3, Zenon
      <3> QED
        BY <3>1, <3>2, <3>3, Zenon
    <2>12. AloneInv'
      BY <1>2, <2>11, Zenon DEF AloneInv
    <2> QED
      BY <2>5, <2>10, <2>12, Zenon DEF AdminInv
  <1> QED
    BY <1>4, <1>5, Zenon

\* The heartbeat command looks for its job.
LEMMA HeartbeatListsInv ==
  ASSUME AdminInv, NEW c \in Callers, HeartbeatLists(c)
  PROVE  AdminInv'
  <1> DEFINE found(session, sched) == {j \in jobs : Matches(j, session, sched)}
             go(pc, id, sched, session) ==
               client' = [client EXCEPT ![c] =
                            [pc |-> pc, id |-> id, sched |-> sched, session |-> session]]
  <1>1. JobsInv /\ ClientInv /\ AloneInv
    BY DEF AdminInv
  <1>2. /\ jobs' = jobs /\ added' = added /\ client[c].pc = "idle"
        /\ disturbed' = (disturbed \/ \E d \in Callers \ {c} : client[d].pc \in {"adds", "removes"})
    BY Zenon DEF HeartbeatLists
  <1>3. PICK session, sched :
          /\ session \in Sessions /\ sched.kind # "at"
          /\ \/ found(session, sched) = {} /\ go("adds", 0, sched, session) /\ UNCHANGED ensured
             \/ \E j \in found(session, sched) :
                  \/ /\ j.sched = sched /\ j.payload = Poll(session)
                     /\ ensured' = [ensured EXCEPT ![session] = sched] /\ UNCHANGED client
                  \/ go("removes", j.id, sched, session) /\ UNCHANGED ensured
    <2>1. PICK in \in Beats :
            LET sched == parseScheduleFlags(in.expr, in.every, "", When("every", 2, TRUE))
            IN  \/ found(in.session, sched) = {} /\ go("adds", 0, sched, in.session) /\ UNCHANGED ensured
                \/ \E j \in found(in.session, sched) :
                     \/ /\ j.sched = sched /\ j.payload = Poll(in.session)
                        /\ ensured' = [ensured EXCEPT ![in.session] = sched] /\ UNCHANGED client
                     \/ go("removes", j.id, sched, in.session) /\ UNCHANGED ensured
      BY Zenon DEF HeartbeatLists
    <2>2. in.session \in Sessions
      BY Zenon DEF Sessions
    <2>3. parseScheduleFlags(in.expr, in.every, "", When("every", 2, TRUE)).kind # "at"
      BY BeatSchedule, Zenon
    <2> HIDE DEF found, go
    <2> QED
      BY <2>1, <2>2, <2>3, Zenon
  <1>4. /\ JobsInv'
        /\ \A i \in 1 .. added : i \in 1 .. added'
        /\ \A n \in jobs' : \E j \in jobs : n.id = j.id /\ n.payload = j.payload
    BY <1>1, <1>2, FewerJobs, Zenon
  <1>5. \A s : Heartbeats(s)' = Heartbeats(s)
    BY <1>2 DEF Heartbeats
  <1>6. \A j \in jobs : j.name = "heartbeat" /\ j.payload.kind = "agent_turn"
                        /\ j.payload.body = "poll" /\ j.payload.session = session
                        /\ session # "" => Beat(j) /\ j \in Heartbeats(session)
    <2>1. \A j \in jobs : j.name = "heartbeat" /\ j.payload.kind = "agent_turn"
                          /\ j.payload.body = "poll" /\ j.payload.session = session
                          /\ session # "" => Beat(j)
      BY <1>3, Zenon DEF Beat
    <2> QED
      BY <1>1, <1>3, <2>1, BeatFacts, Zenon
  <1>7. \A d \in Callers : Busy(d) => client[d].session \in Sessions
    BY <1>1, Zenon DEF ClientInv, ClientOK
  <1>8. ~ disturbed' => ~ disturbed /\ \A d \in Callers : ~ Busy(d)
    BY <1>2, Zenon DEF Busy
  \* What the command remembers, and what the others do.
  <1>9. ASSUME NEW v, client' = [client EXCEPT ![c] = v], ensured' = ensured,
               v.session = session, v.sched = sched,
               \/ v.pc = "adds" /\ found(session, sched) = {}
               \/ /\ v.pc = "removes" /\ IsClient(v)
                  /\ \E j \in found(session, sched) : v.id = j.id
        PROVE  AdminInv'
    <2>1. /\ client' = [d \in Callers |-> client'[d]] /\ client'[c] = v
          /\ \A d \in Callers \ {c} : client'[d] = client[d]
      BY <1>1, <1>9, Written, Zenon DEF ClientInv
    <2>2. v.pc = "removes" =>
            v.id \in 1 .. added /\ \A j \in jobs : j.id = v.id => j.payload.session = session
      <3>1. \A i, j \in jobs : i.id = j.id => i = j
        BY <1>1, Zenon DEF JobsInv
      <3>2. \A j \in jobs : j.id \in 1 .. added
        BY <1>1, Zenon DEF JobsInv, JobOK
      <3>3. \A j \in found(session, sched) : j \in jobs /\ j.payload.session = session
        BY Zenon DEF Matches
      <3> HIDE DEF found
      <3> QED
        BY <1>9, <3>1, <3>2, <3>3, Zenon
    <2>3. ClientOK(c)'
      BY <1>2, <1>3, <1>9, <2>1, <2>2, Zenon DEF ClientOK, Busy
    <2>4. \A d \in Callers \ {c} : ClientOK(d)'
      <3>1. \A d \in Callers \ {c} : Busy(d)' => Busy(d) /\ client'[d] = client[d]
        BY <2>1, Zenon DEF Busy
      <3> QED
        BY <1>1, <1>4, <1>8, <3>1, ClientKept, Zenon
    <2>5. ClientInv'
      BY <1>1, <1>9, <2>1, <2>3, <2>4, Zenon DEF ClientInv
    <2>6. ASSUME ~ disturbed'
          PROVE  /\ \A d, e \in Callers : Busy(d)' /\ Busy(e)' => d = e
                 /\ \A d \in Callers : Claim(d)'
                 /\ \A s \in Sessions \ {""} : Single(s)'
      <3>1. \A d \in Callers \ {c} : ~ Busy(d)'
        BY <1>8, <2>1, <2>6, Zenon DEF Busy
      <3>2. \A d \in Callers \ {c} : Claim(d)'
        BY <3>1, Zenon DEF Claim, Busy
      <3>3. \A s \in Sessions \ {""} : Single(s) /\ Single(s)'
        <4>1. \A s \in Sessions \ {""} : Single(s)
          BY <1>1, <1>8, <2>6, Zenon DEF AloneInv
        <4> QED
          BY <1>5, <1>9, <4>1, Zenon DEF Single
      <3>4. ASSUME session # "" PROVE
              /\ v.pc = "adds" => Heartbeats(session) = {}
              /\ v.pc = "removes" => \A j \in Heartbeats(session) : j.id = v.id
        <4>1. \A j \in jobs : j \in Heartbeats(session) => Matches(j, session, sched)
          <5>1. \A j \in jobs : j \in Heartbeats(session) => Beat(j) /\ j.payload.session = session
            BY <1>1, <1>3, <3>4, BeatFacts, Zenon
          <5> QED
            BY <5>1, Zenon DEF Beat, Matches
        <4>2. Heartbeats(session) \subseteq jobs
          BY Zenon DEF Heartbeats
        <4>3. CASE v.pc = "adds"
          BY <1>9, <4>1, <4>2, <4>3, Zenon
        <4>4. CASE v.pc = "removes"
          <5>1. PICK j \in found(session, sched) : v.id = j.id
            BY <1>9, <4>4, Zenon
          <5>2. j \in Heartbeats(session)
            BY <1>6, <3>4, <5>1, Zenon DEF Matches
          <5>3. \A i \in Heartbeats(session) : i = j
            BY <1>3, <3>3, <3>4, <5>2, Zenon DEF Single
          <5> QED
            BY <4>4, <5>1, <5>3, Zenon
        <4> QED
          BY <4>3, <4>4, Zenon
      <3>5. Claim(c)'
        <4>1. client'[c].session = session /\ client'[c].pc = v.pc /\ client'[c].id = v.id
          BY <1>9, <2>1, Zenon
        <4> QED
          BY <1>5, <3>4, <4>1, Zenon DEF Claim
      <3> QED
        BY <3>1, <3>2, <3>3, <3>5, Zenon
    <2>7. AloneInv'
      BY <2>6, Zenon DEF AloneInv
    <2> QED
      BY <1>4, <2>5, <2>7, Zenon DEF AdminInv
  <1>10. CASE found(session, sched) = {} /\ go("adds", 0, sched, session) /\ UNCHANGED ensured
    <2>1. PICK v : v = [pc |-> "adds", id |-> 0, sched |-> sched, session |-> session]
      BY Zenon
    <2>2. v.pc = "adds" /\ v.sched = sched /\ v.session = session
      BY <2>1, Zenon
    <2>3. client' = [client EXCEPT ![c] = v] /\ ensured' = ensured
      BY <1>10, <2>1, Zenon
    <2> QED
      BY <1>9, <1>10, <2>2, <2>3, Zenon
  <1>11. ASSUME NEW j \in found(session, sched), go("removes", j.id, sched, session),
                UNCHANGED ensured
         PROVE  AdminInv'
    <2>1. PICK v : v = [pc |-> "removes", id |-> j.id, sched |-> sched, session |-> session]
      BY Zenon
    <2>2. v.pc = "removes" /\ v.sched = sched /\ v.session = session /\ v.id = j.id
      BY <2>1, Zenon
    <2>3. IsClient(v)
      BY <2>1, <2>2, Zenon DEF IsClient
    <2>4. client' = [client EXCEPT ![c] = v] /\ ensured' = ensured
      BY <1>11, <2>1, Zenon
    <2> QED
      BY <1>9, <1>11, <2>2, <2>3, <2>4, Zenon
  \* Nothing to do: the schedule is as asked.
  <1>12. ASSUME NEW j \in found(session, sched), j.sched = sched, j.payload = Poll(session),
                ensured' = [ensured EXCEPT ![session] = sched], client' = client
         PROVE  AdminInv'
    <2>1. /\ ensured' = [s \in Sessions |-> ensured'[s]] /\ ensured'[session] = sched
          /\ \A s \in Sessions \ {session} : ensured'[s] = ensured[s]
      <3>1. ensured = [s \in Sessions |-> ensured[s]]
        BY <1>1, Zenon DEF ClientInv
      <3> QED
        BY <1>3, <1>12, <3>1, Written, Zenon
    <2>2. \A d \in Callers : Busy(d)' => Busy(d) /\ client'[d] = client[d]
      BY <1>12, Zenon DEF Busy
    <2>3. \A d \in Callers : ClientOK(d)'
      BY <1>1, <1>4, <1>8, <2>2, ClientKept, Zenon
    <2>4. ClientInv'
      BY <1>1, <1>12, <2>1, <2>3, Zenon DEF ClientInv
    <2>5. ASSUME ~ disturbed' PROVE \A s \in Sessions \ {""} : Single(s)'
      <3>1. ASSUME NEW s \in Sessions \ {""} PROVE Single(s)'
        <4>1. Single(s)
          BY <1>1, <1>8, <2>5, Zenon DEF AloneInv
        <4>2. CASE s # session
          BY <1>5, <2>1, <4>1, <4>2, Zenon DEF Single
        <4>3. CASE s = session
          <5>1. j \in jobs /\ Beat(j) /\ j \in Heartbeats(session)
            BY <1>6, <4>3, Zenon DEF Matches
          <5>2. j.on
            BY <1>1, <5>1, Zenon DEF JobsInv, JobOK
          <5> QED
            BY <1>5, <1>12, <2>1, <4>1, <4>3, <5>1, <5>2, Zenon DEF Single
        <4> QED
          BY <4>2, <4>3, Zenon
      <3> QED
        BY <3>1, Zenon
    <2>6. ~ disturbed' => (\A d \in Callers : ~ Busy(d)')
      BY <1>8, <2>2, Zenon
    <2>7. ~ disturbed' => \A d \in Callers : Claim(d)'
      BY <2>6, Zenon DEF Claim, Busy
    <2>8. AloneInv'
      BY <2>5, <2>6, <2>7, Zenon DEF AloneInv
    <2> QED
      BY <1>4, <2>4, <2>8, Zenon DEF AdminInv
  <1> QED
    BY <1>3, <1>10, <1>11, <1>12, Zenon

\* The invariant holds of the empty store.
LEMMA InitAdmin == AInit => AdminInv
  <1>1. SUFFICES ASSUME AInit PROVE AdminInv
    OBVIOUS
  <1>2. JobsInv
    BY <1>1 DEF AInit, JobsInv
  <1>3. \A c \in Callers : client[c] = AtRest
    BY <1>1, Zenon DEF AInit
  <1>4. \A c \in Callers : ~ Busy(c) /\ client[c].pc = "idle"
    <2>1. AtRest.pc = "idle"
      BY Zenon DEF AtRest
    <2> QED
      BY <1>3, <2>1, Zenon DEF Busy
  <1>5. ClientInv
    <2>1. client = [c \in Callers |-> client[c]]
      BY <1>1, Zenon DEF AInit
    <2>2. ensured = [s \in Sessions |-> ensured[s]]
      BY <1>1, Zenon DEF AInit
    <2>3. \A c \in Callers : ClientOK(c)
      BY <1>4, Zenon DEF ClientOK
    <2> QED
      BY <2>1, <2>2, <2>3, Zenon DEF ClientInv
  <1>6. \A s \in Sessions : Single(s)
    <2>1. \A s \in Sessions : ensured[s] = Error
      BY <1>1, Zenon DEF AInit
    <2>2. \A s : Heartbeats(s) = {}
      BY <1>1, Zenon DEF AInit, Heartbeats
    <2>3. Error.kind = "error"
      BY Zenon DEF Error
    <2> QED
      BY <2>1, <2>2, <2>3, Zenon DEF Single
  <1>7. \A c \in Callers : Claim(c)
    BY <1>4, Zenon DEF Claim
  <1> QED
    BY <1>2, <1>4, <1>5, <1>6, <1>7, Zenon DEF AdminInv, AloneInv

\* Nothing that the invariant is about changes.
LEMMA SameAdmin ==
  ASSUME AdminInv, UNCHANGED <<jobs, added, client, ensured, disturbed>>
  PROVE  AdminInv'
  <1>1. JobsInv /\ ClientInv /\ AloneInv
    BY DEF AdminInv
  <1>2. /\ jobs' = jobs /\ added' = added /\ client' = client /\ ensured' = ensured
    BY Zenon
  <1>a. ~ disturbed' => ~ disturbed
    OBVIOUS
  <1>3. \A s : Heartbeats(s)' = Heartbeats(s)
    BY <1>2 DEF Heartbeats
  <1>4. /\ JobsInv'
        /\ \A i \in 1 .. added : i \in 1 .. added'
        /\ \A n \in jobs' : \E j \in jobs : n.id = j.id /\ n.payload = j.payload
    BY <1>1, <1>2, FewerJobs, Zenon
  <1>5. /\ \A d \in Callers : Busy(d)' => Busy(d) /\ client'[d] = client[d]
        /\ \A d \in Callers : Busy(d) => client[d].session \in Sessions
    BY <1>1, <1>2, Zenon DEF Busy, ClientInv, ClientOK
  <1>6. \A d \in Callers : ClientOK(d)'
    BY <1>1, <1>a, <1>4, <1>5, ClientKept, Zenon
  <1>7. ClientInv'
    BY <1>1, <1>2, <1>6, Zenon DEF ClientInv
  <1>8. \A s \in Sessions \ {""} : Single(s) => Single(s)'
    BY <1>2, <1>3, Zenon DEF Single
  <1>9. ~ disturbed => \A s \in Sessions \ {""} : Single(s)'
    BY <1>1, <1>8, Zenon DEF AloneInv
  <1>10. AloneInv'
    BY <1>1, <1>a, <1>3, <1>5, <1>9, AloneFrame, Zenon
  <1> QED
    BY <1>4, <1>7, <1>10, Zenon DEF AdminInv

\* Ids are not used again.
LEMMA AddedGrows ==
  ASSUME JobsInv, added' \in {added, added + 1}
  PROVE  \A i \in 1 .. added : i \in 1 .. added'
  BY DEF JobsInv

\* What the steps do to the lists in memory, but for the end of a run and a tick.
LEMMA OtherMemory ==
  ASSUME AdminInv, AdminInv', MemoryInv,
         \/ ToolAdds \/ CommandAdds \/ Loads \/ UNCHANGED avars
         \/ \E c \in Callers :
              \/ HeartbeatLists(c) \/ HeartbeatRemoves(c) \/ HeartbeatAdds(c) \/ Killed(c)
              \/ Resolves(c) \/ JobRemoved(c) \/ RunsNow(c)
  PROVE  MemoryInv'
  <1>1. \/ running' = running /\ loaded' \in {loaded, jobs, jobs'} /\ added' \in {added, added + 1}
        \/ \E c \in Callers : RunsNow(c)
    <2>1. CASE ToolAdds
      BY <2>1, Zenon DEF ToolAdds, AddJob
    <2>2. CASE CommandAdds
      BY <2>2, Zenon DEF CommandAdds, AddJob
    <2>3. CASE Loads \/ UNCHANGED avars
      BY <2>3, Zenon DEF Loads, avars
    <2>4. ASSUME NEW c \in Callers, HeartbeatLists(c) \/ HeartbeatRemoves(c) \/ Killed(c)
          PROVE  running' = running /\ loaded' = loaded /\ added' = added
      BY <2>4, Zenon DEF HeartbeatLists, HeartbeatRemoves, Killed
    <2>5. ASSUME NEW c \in Callers, Resolves(c) \/ JobRemoved(c)
          PROVE  running' = running /\ loaded' \in {loaded, jobs, jobs'} /\ added' = added
      BY <2>5, Zenon DEF Resolves, JobRemoved
    <2>6. ASSUME NEW c \in Callers, HeartbeatAdds(c)
          PROVE  running' = running /\ loaded' = loaded /\ added' \in {added, added + 1}
      BY <2>6, Zenon DEF HeartbeatAdds, AddJob
    <2> QED
      BY <2>1, <2>2, <2>3, <2>4, <2>5, <2>6, Zenon
  <1>2. CASE running' = running /\ loaded' \in {loaded, jobs, jobs'} /\ added' \in {added, added + 1}
    <2>1. \A i \in 1 .. added : i \in 1 .. added'
      BY <1>2, AddedGrows DEF AdminInv
    <2> QED
      BY <1>2, <2>1, MemoryKept, Zenon DEF AdminInv
  <1>3. ASSUME NEW c \in Callers, RunsNow(c) PROVE MemoryInv'
    <2>1. loaded' \in {loaded, jobs, jobs'} /\ added' = added
      BY <1>3, Zenon DEF RunsNow
    <2>0. \A i : /\ [id |-> i, by |-> "daemon", view |-> {}].by = "daemon"
                 /\ [id |-> i, by |-> "command", view |-> jobs].view = jobs
      BY Zenon
    <2>2. \A r \in running' : r \in running \/ r.by = "daemon" \/ r.view = jobs
      <3>1. CASE running' = running \cup {[id |-> j.id, by |-> "daemon", view |-> {}] : j \in jobs \ Without(client[c].id)}
        BY <2>0, <3>1, Zenon
      <3>2. CASE running' = running \cup {[id |-> j.id, by |-> "command", view |-> jobs] : j \in jobs \ Without(client[c].id)}
        BY <2>0, <3>2, Zenon
      <3> QED
        BY <1>3, <3>1, <3>2, Zenon DEF RunsNow
    <2>3. \A i \in 1 .. added : i \in 1 .. added'
      BY <2>1, Zenon
    <2> QED
      BY <2>1, <2>2, <2>3, MemoryKept, Zenon DEF AdminInv
  <1> QED
    BY <1>1, <1>2, <1>3, Zenon

\* Every step keeps the invariant.
LEMMA StepAdmin ==
  ASSUME AdminInv, MemoryInv, NoneByHand, [ANext]_avars
  PROVE  AdminInv' /\ MemoryInv'
  <1>1. CASE ToolAdds
    BY <1>1, ToolAddsInv, OtherMemory
  <1>2. CASE CommandAdds
    BY <1>2, CommandAddsInv, OtherMemory
  <1>3. CASE Fires
    BY <1>3, FiresInv
  <1>4. CASE JobEnds
    BY <1>4, JobEndsInv
  <1>5. ASSUME NEW c \in Callers, HeartbeatLists(c) PROVE AdminInv' /\ MemoryInv'
    BY <1>5, HeartbeatListsInv, OtherMemory
  <1>6. ASSUME NEW c \in Callers, HeartbeatRemoves(c) PROVE AdminInv' /\ MemoryInv'
    BY <1>6, HeartbeatRemovesInv, OtherMemory
  <1>7. ASSUME NEW c \in Callers, HeartbeatAdds(c) PROVE AdminInv' /\ MemoryInv'
    BY <1>7, HeartbeatAddsInv, OtherMemory
  <1>8. ASSUME NEW c \in Callers, Killed(c) \/ Resolves(c) \/ RunsNow(c)
        PROVE  AdminInv' /\ MemoryInv'
    BY <1>8, PassiveInv, OtherMemory
  <1>9. ASSUME NEW c \in Callers, JobRemoved(c) PROVE AdminInv' /\ MemoryInv'
    BY <1>9, JobRemovedInv, OtherMemory
  <1>10. CASE UNCHANGED avars
    <2>1. AdminInv'
      BY <1>10, SameAdmin DEF avars
    <2> QED
      BY <1>10, <2>1, OtherMemory
  <1>11. CASE Loads
    <2>1. AdminInv'
      BY <1>11, SameAdmin DEF Loads
    <2> QED
      BY <1>11, <2>1, OtherMemory
  <1> QED
    BY <1>1, <1>2, <1>3, <1>4, <1>5, <1>6, <1>7, <1>8, <1>9, <1>10, <1>11 DEF ANext

\* Whatever callers list, remove, add, run or kill in between, a session that is
\* named has one heartbeat job at most and, after a heartbeat command, the one that
\* was asked for, as long as the heartbeat commands do not overlap, no run that ends
\* writes back a list that the store has moved on from, and nobody adds a job by
\* hand that is the heartbeat's in everything that the command looks at; and, also
\* when they do, every job in the store is on only with a schedule that had a
\* future run when the job was added, and can be handled.
THEOREM AdministeredHolds ==
  ASSUME NoneByHand
  PROVE  ASpec => []Administered
  <1>1. AInit => AdminInv /\ MemoryInv
    <2>1. AInit => MemoryInv
      BY Zenon DEF AInit, MemoryInv, StoreOK
    <2> QED
      BY <2>1, InitAdmin
  <1>2. AdminInv /\ MemoryInv /\ [ANext]_avars => AdminInv' /\ MemoryInv'
    BY StepAdmin
  <1>3. AdminInv => Administered
    <2>1. SUFFICES ASSUME AdminInv PROVE Administered
      OBVIOUS
    <2>2. \A j \in jobs : (j.on => j.sched.future) /\ Runnable(j.payload)
      BY <2>1, StoredRuns, Zenon DEF AdminInv, JobsInv, JobOK
    <2>3. ~ disturbed => \A s \in Sessions \ {""} : Single(s)
      BY <2>1, Zenon DEF AdminInv, AloneInv
    <2> QED
      BY <2>2, <2>3, Zenon DEF Administered, Single
  <1> QED
    BY <1>1, <1>2, <1>3, PTL DEF ASpec

-----------------------------------------------------------------------------
(***************************************************************************)
(* Numbers: induction, by the least number without a property.             *)
(***************************************************************************)

\* A set of numbers that is not empty has a least one.
LEMMA LeastNumber ==
  ASSUME NEW S, S \subseteq Nat, S # {}
  PROVE  \E x \in S : \A y \in S : x <= y
  <1>1. PICK R : IsWellFoundedOn(R, Nat) /\ \A x, y \in Nat : x < y => <<x, y>> \in R
    <2>1. \A x, y \in Nat : x < y => <<x, y>> \in OpToRel(<, Nat)
      BY DEF OpToRel
    <2> QED
      BY <2>1, NatLessThanWellFounded
  <1>2. IsWellFoundedOn(R, Nat) /\ S \subseteq Nat /\ S # {}
    BY <1>1
  <1>3. PICK x \in S : \A y \in S : ~ (<<y, x>> \in R)
    BY ONLY <1>2, WFMin, Zenon
  <1>4. ASSUME NEW y \in S, ~ (x <= y) PROVE FALSE
    <2>1. y \in Nat /\ x \in Nat /\ y < x
      BY <1>4
    <2> QED
      BY <1>1, <1>3, <2>1
  <1> QED
    BY <1>4

\* A number that is not in a set: either 0 is not, or some number is in it and the
\* next one is not.
LEMMA FirstMissing ==
  ASSUME NEW P, NEW n \in Nat, n \notin P, 0 \in P
  PROVE  \E x \in 1 .. n : x - 1 \in P /\ x \notin P
  <1> DEFINE T == {x \in Nat : x \notin P}
  <1>1. PICK x \in T : \A y \in T : x <= y
    <2>1. n \in T /\ T \subseteq Nat
      OBVIOUS
    <2> HIDE DEF T
    <2> QED
      BY <2>1, LeastNumber
  <1>2. x \in Nat /\ x # 0 /\ x <= n /\ x \notin P
    BY <1>1
  <1>3. x - 1 \in Nat /\ ~ (x <= x - 1)
    BY <1>2
  <1>4. x - 1 \in P
    BY <1>1, <1>3
  <1> QED
    BY <1>2, <1>4

-----------------------------------------------------------------------------
(***************************************************************************)
(* Skills.                                                                 *)
(***************************************************************************)

\* The directories of a finite tree have a greatest depth.
LEMMA Depth ==
  ASSUME NEW dirs \in SUBSET Seq(STRING), IsFiniteSet(dirs)
  PROVE  \E n \in Nat : \A d \in dirs : Len(d) < n
  <1>1. PICK s \in Seq(dirs) : \A d \in dirs : \E i \in 1 .. Len(s) : s[i] = d
    BY DEF IsFiniteSet
  <1>2. Len(s) \in Nat /\ \A i \in 1 .. Len(s) : s[i] \in dirs /\ Len(s[i]) \in Nat
    BY <1>1
  <1> DEFINE P == {i \in Nat : i <= Len(s) => \E n \in Nat : \A j \in 1 .. i : Len(s[j]) < n}
  <1>3. Len(s) \in P
    <2> SUFFICES ASSUME Len(s) \notin P PROVE FALSE
      OBVIOUS
    <2>1. 0 \in P
      OBVIOUS
    <2>2. PICK x \in 1 .. Len(s) : x - 1 \in P /\ x \notin P
      <3> HIDE DEF P
      <3> QED
        BY <1>2, <2>1, FirstMissing
    <2>3. x \in Nat /\ x - 1 \in Nat /\ x - 1 <= Len(s)
      BY <1>2
    <2>4. PICK n \in Nat : \A j \in 1 .. x - 1 : Len(s[j]) < n
      BY <2>2, <2>3
    <2>5. Len(s[x]) \in Nat
      BY <1>2
    <2>6. n + Len(s[x]) + 1 \in Nat
      BY <2>5
    <2>7. \A j \in 1 .. x : Len(s[j]) < n + Len(s[x]) + 1
      <3> SUFFICES ASSUME NEW j \in 1 .. x PROVE Len(s[j]) < n + Len(s[x]) + 1
        OBVIOUS
      <3>1. CASE j = x
        BY <2>5, <3>1
      <3>2. CASE j # x
        <4>1. j \in 1 .. x - 1 /\ j \in 1 .. Len(s)
          BY <1>2, <2>3, <3>2
        <4>2. Len(s[j]) < n /\ Len(s[j]) \in Nat
          BY <1>2, <2>4, <4>1
        <4> QED
          BY <2>5, <4>2
      <3> QED
        BY <3>1, <3>2
    <2>8. x \in P
      BY <2>3, <2>6, <2>7
    <2> QED
      BY <2>2, <2>8
  <1>4. PICK n \in Nat : \A j \in 1 .. Len(s) : Len(s[j]) < n
    BY <1>2, <1>3
  <1> QED
    BY <1>1, <1>4

\* The parts of paths: names of directories and files, those of the resource
\* directories among them.
Parts == STRING \cup Kinds

LEMMA PartsFacts == Kinds \subseteq Parts /\ \A p \in Seq(STRING) : p \in Seq(Parts)
  <1>1. ASSUME NEW A, NEW B, A \subseteq B, NEW p \in Seq(A) PROVE p \in Seq(B)
    BY <1>1
  <1>2. STRING \subseteq Parts /\ Kinds \subseteq Parts
    BY DEF Parts
  <1> QED
    BY <1>1, <1>2

\* What is below a resource directory of a root is deeper than the root.
LEMMA NestedDeeper ==
  ASSUME NEW S, NEW r \in Seq(S), NEW d \in Seq(S), NEW k \in S, IsPrefix(Append(r, k), d)
  PROVE  Len(r) < Len(d)
  <1>2. Len(Append(r, k)) = Len(r) + 1 /\ Len(r) \in Nat /\ Len(d) \in Nat
    OBVIOUS
  <1> QED
    BY <1>2 DEF IsPrefix

\* There is a set of roots.
LEMMA RootsExist ==
  ASSUME NEW dirs \in SUBSET Seq(STRING), IsFiniteSet(dirs)
  PROVE  \E roots \in SUBSET dirs :
           roots = {dir \in dirs : ~ isNestedInSkillResourceDir(dir, roots)}
  <1>1. PICK n \in Nat : \A d \in dirs : Len(d) < n
    BY Depth
  <1> DEFINE Found(x, roots) == roots = {d \in dirs : Len(d) < x /\ ~ isNestedInSkillResourceDir(d, roots)}
             P == {x \in Nat : \E roots \in SUBSET dirs : Found(x, roots)}
  <1>2. n \in P
    <2> SUFFICES ASSUME n \notin P PROVE FALSE
      OBVIOUS
    <2>1. 0 \in P
      <3>1. {} = {d \in dirs : Len(d) < 0 /\ ~ isNestedInSkillResourceDir(d, {})}
        <4>1. \A d \in dirs : Len(d) \in Nat
          OBVIOUS
        <4> QED
          BY <4>1
      <3> QED
        BY <3>1
    <2>2. PICK x \in 1 .. n : x - 1 \in P /\ x \notin P
      <3> HIDE DEF P
      <3> QED
        BY <2>1, FirstMissing
    <2>3. PICK before \in SUBSET dirs : Found(x - 1, before)
      BY <2>2
    <2> DEFINE new == {d \in dirs : Len(d) = x - 1 /\ ~ isNestedInSkillResourceDir(d, before)}
               roots == before \cup new
    <2>4. \A d \in before : Len(d) < x - 1
      BY <2>3
    <2>5. ASSUME NEW d \in dirs, Len(d) < x
          PROVE  isNestedInSkillResourceDir(d, roots) <=> isNestedInSkillResourceDir(d, before)
      <3>1. ASSUME NEW r \in new, NEW k \in Kinds, IsPrefix(Append(r, k), d) PROVE FALSE
        <4>1. Len(r) < Len(d)
          BY <3>1, NestedDeeper, PartsFacts
        <4>2. Len(r) = x - 1 /\ Len(d) \in Nat /\ x \in Nat
          OBVIOUS
        <4> QED
          BY <2>5, <4>1, <4>2
      <3> QED
        BY <3>1 DEF isNestedInSkillResourceDir
    <2>6. ASSUME NEW d \in dirs
          PROVE  d \in roots <=> Len(d) < x /\ ~ isNestedInSkillResourceDir(d, roots)
      <3>1. Len(d) \in Nat /\ x \in Nat
        OBVIOUS
      <3>2. CASE Len(d) = x - 1
        <4>1. d \notin before /\ Len(d) < x
          BY <2>4, <3>1, <3>2
        <4>2. d \in roots <=> ~ isNestedInSkillResourceDir(d, before)
          BY <3>2, <4>1
        <4> QED
          BY <2>5, <4>1, <4>2
      <3>3. CASE Len(d) < x - 1
        <4>1. d \notin new /\ Len(d) < x
          BY <3>1, <3>3
        <4>2. d \in roots <=> ~ isNestedInSkillResourceDir(d, before)
          BY <2>3, <3>3, <4>1
        <4> QED
          BY <2>5, <4>1, <4>2
      <3>4. CASE ~ (Len(d) < x)
        <4>1. Len(d) # x - 1 /\ ~ (Len(d) < x - 1)
          BY <3>1, <3>4
        <4>2. d \notin new /\ d \notin before
          BY <2>4, <4>1
        <4> QED
          BY <3>4, <4>2
      <3> QED
        BY <3>1, <3>2, <3>3, <3>4
    <2>7. roots \in SUBSET dirs
      OBVIOUS
    <2> HIDE DEF roots
    <2>8. Found(x, roots)
      BY <2>6, <2>7
    <2>9. x \in P
      <3>1. x \in Nat
        OBVIOUS
      <3> QED
        BY <2>7, <2>8, <3>1, Zenon
    <2> QED
      BY <2>2, <2>9
  <1>3. PICK roots \in SUBSET dirs : Found(n, roots)
    BY <1>2
  <1>4. roots = {d \in dirs : ~ isNestedInSkillResourceDir(d, roots)}
    BY <1>1, <1>3
  <1> QED
    BY <1>4

\* detectSkillRoots: the roots of a tree, none of which is below a resource
\* directory of another.
LEMMA RootsFacts ==
  ASSUME NEW t \in Trees
  PROVE  /\ detectSkillRoots(t) \subseteq t.dirs /\ t.dirs \subseteq Seq(STRING)
         /\ \A r, q \in detectSkillRoots(t) : \A k \in Kinds : ~ IsPrefix(Append(r, k), q)
  <1>1. t.dirs \in SUBSET Seq(STRING) /\ IsFiniteSet(t.dirs)
    BY SkillsAssumption
  <1>2. \E roots \in SUBSET t.dirs :
          roots = {dir \in t.dirs : ~ isNestedInSkillResourceDir(dir, roots)}
    BY <1>1, RootsExist
  <1>3. PICK roots : roots = detectSkillRoots(t)
    OBVIOUS
  <1>4. /\ roots \in SUBSET t.dirs
        /\ roots = {dir \in t.dirs : ~ isNestedInSkillResourceDir(dir, roots)}
    BY <1>2, <1>3 DEF detectSkillRoots
  <1>5. \A q \in roots : ~ isNestedInSkillResourceDir(q, roots)
    BY <1>4
  <1>6. \A r, q \in roots : \A k \in Kinds : ~ IsPrefix(Append(r, k), q)
    BY <1>5 DEF isNestedInSkillResourceDir
  <1> QED
    BY <1>1, <1>3, <1>4, <1>6

\* The parts of the path of a resource.
LEMMA PathParts ==
  ASSUME NEW S, NEW r \in Seq(S), NEW k \in S, NEW f \in Seq(S), NEW p, p = Append(r, k) \o f
  PROVE  /\ p \in Seq(S) /\ Len(p) = Len(r) + 1 + Len(f)
         /\ \A i \in 1 .. Len(r) : p[i] = r[i]
         /\ p[Len(r) + 1] = k
         /\ \A i \in 1 .. Len(f) : p[Len(r) + 1 + i] = f[i]
  <1>0. Append(r, k) \in Seq(S)
    OBVIOUS
  <1>1. PICK a \in Seq(S) : a = Append(r, k)
    BY ONLY <1>0, Zenon
  <1>2. /\ Len(a) = Len(r) + 1 /\ Len(r) \in Nat /\ a[Len(r) + 1] = k
        /\ \A i \in 1 .. Len(r) : a[i] = r[i]
    BY <1>1
  <1>3. /\ p \in Seq(S) /\ Len(p) = Len(a) + Len(f) /\ Len(f) \in Nat
        /\ \A i \in 1 .. Len(a) : p[i] = a[i]
        /\ \A i \in 1 .. Len(f) : p[Len(a) + i] = f[i]
    BY <1>1
  <1> QED
    BY <1>2, <1>3

\* Two skills, one of which holds the other, have no common file.
LEMMA NoCommonFile ==
  ASSUME NEW S, NEW r \in Seq(S), NEW q \in Seq(S), NEW k \in S, NEW l \in S,
         NEW f \in Seq(S), NEW g \in Seq(S),
         Append(r, k) \o f = Append(q, l) \o g, Len(r) < Len(q)
  PROVE  IsPrefix(Append(r, k), q)
  <1>1. PICK p : p = Append(r, k) \o f /\ p = Append(q, l) \o g
    OBVIOUS
  <1>2. /\ \A i \in 1 .. Len(r) : p[i] = r[i]
        /\ p[Len(r) + 1] = k
    <2>1. p = Append(r, k) \o f
      BY <1>1
    <2> QED
      BY ONLY <2>1, PathParts, r \in Seq(S), k \in S, f \in Seq(S)
  <1>3. \A i \in 1 .. Len(q) : p[i] = q[i]
    <2>1. p = Append(q, l) \o g
      BY <1>1
    <2> QED
      BY ONLY <2>1, PathParts, q \in Seq(S), l \in S, g \in Seq(S)
  <1>4. Len(r) \in Nat /\ Len(q) \in Nat /\ Len(r) + 1 <= Len(q)
    OBVIOUS
  <1>a. Append(r, k) \in Seq(S)
    OBVIOUS
  <1>b. PICK a \in Seq(S) : a = Append(r, k)
    BY ONLY <1>a, Zenon
  <1>5. /\ a = Append(r, k) /\ Len(a) = Len(r) + 1 /\ a[Len(r) + 1] = k
        /\ \A i \in 1 .. Len(r) : a[i] = r[i]
    BY ONLY <1>b, r \in Seq(S), k \in S
  <1>6. \A i \in 1 .. Len(a) : a[i] = q[i]
    BY <1>2, <1>3, <1>4, <1>5
  <1>7. SubSeq(a, 1, Len(a)) = SubSeq(q, 1, Len(a))
    BY <1>4, <1>5, <1>6
  <1> QED
    BY <1>4, <1>5, <1>7 DEF IsPrefix

\* No file is a resource of two roots.
LEMMA OneOwner ==
  ASSUME NEW t \in Trees, NEW r \in detectSkillRoots(t), NEW q \in detectSkillRoots(t),
         NEW k \in Kinds, NEW l \in Kinds, NEW f \in Seq(Parts), NEW g \in Seq(Parts),
         NEW p, p = Append(r, k) \o f, p = Append(q, l) \o g
  PROVE  r = q
  <1>1. r \in Seq(Parts) /\ q \in Seq(Parts) /\ k \in Parts /\ l \in Parts
    BY RootsFacts, PartsFacts
  <1>2. ~ IsPrefix(Append(r, k), q) /\ ~ IsPrefix(Append(q, l), r)
    BY RootsFacts
  <1>3. ~ (Len(r) < Len(q))
    BY <1>1, <1>2, NoCommonFile
  <1>4. ~ (Len(q) < Len(r))
    BY <1>1, <1>2, NoCommonFile
  <1>5. Len(r) = Len(q) /\ Len(r) \in Nat
    BY <1>1, <1>3, <1>4
  <1>6. p = Append(r, k) \o f
    OBVIOUS
  <1>7. \A i \in 1 .. Len(r) : p[i] = r[i]
    BY ONLY <1>1, <1>6, f \in Seq(Parts), PathParts
  <1>8. p = Append(q, l) \o g
    OBVIOUS
  <1>9. \A i \in 1 .. Len(q) : p[i] = q[i]
    BY ONLY <1>1, <1>8, g \in Seq(Parts), PathParts
  <1>10. \A i \in 1 .. Len(r) : r[i] = q[i]
    BY ONLY <1>5, <1>7, <1>9
  <1> QED
    BY ONLY <1>1, <1>5, <1>10

\* The first parts of a path, one more at a time.
LEMMA GrowParts ==
  ASSUME NEW S, NEW p \in Seq(S)
  PROVE  /\ SubSeq(p, 1, 0) = <<>> /\ SubSeq(p, 1, Len(p)) = p
         /\ \A i \in 1 .. Len(p) : SubSeq(p, 1, i) = Append(SubSeq(p, 1, i - 1), p[i])
  <1>1. ASSUME NEW i \in 1 .. Len(p)
        PROVE  SubSeq(p, 1, i) = Append(SubSeq(p, 1, i - 1), p[i])
    <2>1. Len(p) \in Nat /\ i \in Nat /\ i - 1 \in Nat /\ i - 1 <= Len(p) /\ i <= Len(p)
      OBVIOUS
    <2>2. \A j \in 1 .. Len(p) : p[j] \in S
      OBVIOUS
    <2>a. SubSeq(p, 1, i - 1) \in Seq(S) /\ SubSeq(p, 1, i) \in Seq(S)
      BY <2>1, <2>2
    <2>b. PICK a \in Seq(S) : a = SubSeq(p, 1, i - 1)
      BY ONLY <2>a, Zenon
    <2>3. Len(a) = i - 1 /\ \A j \in 1 .. i - 1 : a[j] = p[j]
      BY <2>1, <2>b
    <2>4. PICK b \in Seq(S) : b = SubSeq(p, 1, i)
      BY ONLY <2>a, Zenon
    <2>5. Len(b) = i /\ \A j \in 1 .. i : b[j] = p[j]
      BY <2>1, <2>4
    <2>6. b = Append(a, p[i])
      BY <2>1, <2>3, <2>5
    <2> QED
      BY <2>b, <2>4, <2>6
  <1> QED
    BY <1>1

\* What appends the parts of a path one at a time has the path in the end.
LEMMA GrowsToAll ==
  ASSUME NEW S, NEW p \in Seq(S), NEW g, g[0] = <<>>,
         \A i \in 1 .. Len(p) : g[i] = Append(g[i - 1], p[i])
  PROVE  g[Len(p)] = p
  <1>1. Len(p) \in Nat
    OBVIOUS
  <1> DEFINE P == {i \in Nat : i <= Len(p) => g[i] = SubSeq(p, 1, i)}
  <1>2. 0 \in P
    BY GrowParts
  <1>3. ASSUME NEW x \in 1 .. Len(p), x - 1 \in P PROVE x \in P
    <2>1. x \in Nat /\ x - 1 <= Len(p)
      BY <1>1
    <2>2. g[x - 1] = SubSeq(p, 1, x - 1)
      BY <1>3, <2>1
    <2>a. g[x] = Append(g[x - 1], p[x])
      OBVIOUS
    <2>b. SubSeq(p, 1, x) = Append(SubSeq(p, 1, x - 1), p[x])
      BY GrowParts
    <2>3. g[x] = SubSeq(p, 1, x)
      BY ONLY <2>a, <2>b, <2>2
    <2> QED
      BY <2>1, <2>3
  <1>4. Len(p) \in P
    <2> HIDE DEF P
    <2> QED
      BY <1>1, <1>2, <1>3, FirstMissing
  <1>5. g[Len(p)] = SubSeq(p, 1, Len(p))
    BY <1>1, <1>4
  <1> QED
    BY <1>5, GrowParts

\* The parts of a path are names without a meaning of their own.
Ordinary(p) == \A i \in 1 .. Len(p) : p[i] \notin {"", ".", ".."}

\* path.Clean leaves a path alone whose parts are ordinary names.
LEMMA CleanOrdinary ==
  ASSUME NEW S, NEW p \in Seq(S), Ordinary(p)
  PROVE  Clean(p) = p
  <1>1. PICK n \in Nat : n = Len(p)
    OBVIOUS
  <1>2. \A i \in 0 .. n : i = 0 \/ (i \in 1 .. n /\ i - 1 \in 0 .. n /\ i > 0)
    OBVIOUS
  <1>a. \A i \in 1 .. n : i \in 0 .. n /\ i # 0
    OBVIOUS
  <1>3. \A i \in 1 .. n : i # 0 /\ p[i] # "" /\ p[i] # "." /\ p[i] # ".."
    BY <1>1, <1>a, Zenon DEF Ordinary
  <1> DEFINE Body(g, i) ==
        CASE i = 0 -> <<>>
          [] i > 0 /\ p[i] \in {"", "."} -> g[i - 1]
          [] i > 0 /\ p[i] = ".." /\ g[i - 1] # <<>> /\ Last(g[i - 1]) # ".." -> Front(g[i - 1])
          [] OTHER -> Append(g[i - 1], p[i])
             Cleans(g) == g = [i \in 0 .. Len(p) |-> Body(g, i)]
             first == [i \in 0 .. Len(p) |-> SubSeq(p, 1, i)]
  <1>4. ASSUME NEW g PROVE Body(g, 0) = <<>>
    <2>1. ~ (0 > 0)
      BY ONLY TRUE
    <2> QED
      BY ONLY <2>1, Zenon
  <1>5. ASSUME NEW g, NEW i \in 1 .. n PROVE Body(g, i) = Append(g[i - 1], p[i])
    BY ONLY <1>3, i \in 1 .. n, Zenon
  <1>6. Clean(p) = (CHOOSE g : Cleans(g))[Len(p)]
    BY DEF Clean
  <1> HIDE DEF Body
  <1>7. \A i \in 0 .. n : first[i] = SubSeq(p, 1, i)
    BY ONLY <1>1
  <1>8. Cleans(first)
    <2>1. ASSUME NEW i \in 0 .. n PROVE Body(first, i) = SubSeq(p, 1, i)
      <3>1. CASE i = 0
        BY <1>4, <3>1, GrowParts
      <3>2. CASE i # 0
        <4>1. i \in 1 .. n /\ i - 1 \in 0 .. n
          BY <1>2, <3>2
        <4>2. first[i - 1] = SubSeq(p, 1, i - 1)
          BY <1>7, <4>1
        <4>3. Body(first, i) = Append(first[i - 1], p[i])
          BY <1>5, <4>1
        <4>4. SubSeq(p, 1, i) = Append(SubSeq(p, 1, i - 1), p[i])
          BY <1>1, <4>1, GrowParts
        <4> QED
          BY ONLY <4>2, <4>3, <4>4
      <3> QED
        BY <3>1, <3>2
    <2> QED
      BY ONLY <1>1, <2>1
  <1>9. PICK g : g = (CHOOSE h : Cleans(h))
    OBVIOUS
  <1>10. Cleans(g)
    BY <1>8, <1>9
  <1>11. g[0] = <<>>
    <2>1. 0 \in 0 .. Len(p)
      BY ONLY <1>1
    <2> QED
      BY ONLY <1>4, <1>10, <2>1
  <1>12. \A i \in 1 .. Len(p) : g[i] = Append(g[i - 1], p[i])
    BY ONLY <1>1, <1>a, <1>5, <1>10
  <1>13. g[Len(p)] = p
    BY ONLY <1>11, <1>12, GrowsToAll, p \in Seq(S)
  <1> QED
    BY <1>6, <1>9, <1>13

\* A path in a directory: its first part, and the rest of it.
LEMMA BelowFacts ==
  ASSUME NEW S, NEW k \in S, NEW f \in Seq(S), f # <<>>
  PROVE  /\ Len(<<k>> \o f) > 1 /\ (<<k>> \o f)[1] = k /\ Tail(<<k>> \o f) = f
         /\ Len(f) > 0 /\ Head(f) = f[1]
  <1>1. Len(f) \in Nat /\ Len(f) > 0
    OBVIOUS
  <1>2. <<k>> \in Seq(S) /\ Len(<<k>>) = 1 /\ <<k>>[1] = k
    OBVIOUS
  <1>3. <<k>> \o f \in Seq(S)
    BY <1>2
  <1>4. PICK p \in Seq(S) : p = <<k>> \o f
    BY ONLY <1>3, Zenon
  <1>5. Len(p) = Len(f) + 1 /\ p[1] = k /\ \A i \in 1 .. Len(f) : p[i + 1] = f[i]
    BY <1>1, <1>2, <1>4
  <1>6. Tail(p) \in Seq(S)
    BY <1>1, <1>5
  <1>7. PICK b \in Seq(S) : b = Tail(p)
    BY ONLY <1>6, Zenon
  <1>8. Len(b) = Len(f) /\ \A i \in 1 .. Len(f) : b[i] = p[i + 1]
    BY <1>1, <1>5, <1>7
  <1>9. b = f
    BY <1>5, <1>8
  <1> QED
    BY <1>1, <1>4, <1>5, <1>7, <1>9

\* The last parts of a path are a path.
LEMMA RestOfPath ==
  ASSUME NEW S, NEW f \in Seq(S), NEW m \in Nat
  PROVE  SubSeq(f, m + 2, Len(f)) \in Seq(S)
  <1>1. Len(f) \in Nat /\ \A i \in (m + 2) .. Len(f) : f[i] \in S
    OBVIOUS
  <1> QED
    BY <1>1

\* A resource is a file of the tree, and its path below the directory has ordinary
\* names only.
LEMMA ResourceFacts ==
  ASSUME NEW t \in Trees, NEW root \in t.dirs, NEW kind \in Kinds, NEW f \in Resources(t, root, kind)
  PROVE  /\ f \in Seq(Parts) /\ f # <<>> /\ Append(root, kind) \o f \in t.files
         /\ \A i \in 1 .. Len(f) : f[i] \notin {"", ".", ".."}
  <1>1. PICK g \in t.files : f = SubSeq(g, Len(root) + 2, Len(g))
    BY DEF Resources
  <1>2. f # <<>> /\ Append(root, kind) \o f \in t.files
    BY DEF Resources
  <1>3. t.dirs \subseteq Seq(STRING) /\ t.files \subseteq Seq(STRING)
    BY SkillsAssumption
  <1>4. g \in Seq(STRING) /\ root \in Seq(STRING)
    BY <1>3
  <1>5. Len(root) \in Nat
    BY <1>4
  <1>6. f \in Seq(STRING)
    BY <1>1, <1>4, <1>5, RestOfPath
  <1>7. root \in Seq(Parts) /\ f \in Seq(Parts) /\ kind \in Parts
    BY <1>4, <1>6, PartsFacts
  <1>8. PICK p : p = Append(root, kind) \o f
    OBVIOUS
  <1>9. /\ p \in Seq(Parts) /\ Len(p) = Len(root) + 1 + Len(f)
        /\ \A i \in 1 .. Len(f) : p[Len(root) + 1 + i] = f[i]
    BY ONLY <1>7, <1>8, PathParts
  <1>10. \A i \in DOMAIN p : p[i] \notin {"", ".", ".."}
    BY ONLY SkillsAssumption, t \in Trees, <1>2, <1>8, Zenon
  <1>11. ASSUME NEW i \in 1 .. Len(f) PROVE Len(root) + 1 + i \in DOMAIN p
    <2>1. Len(f) \in Nat
      BY ONLY <1>7
    <2>2. DOMAIN p = 1 .. Len(p)
      BY ONLY <1>9
    <2> QED
      BY ONLY <1>5, <1>9, <2>1, <2>2, i \in 1 .. Len(f)
  <1>12. \A i \in 1 .. Len(f) : f[i] \notin {"", ".", ".."}
    BY ONLY <1>9, <1>10, <1>11, Zenon
  <1> QED
    BY ONLY <1>2, <1>7, <1>12, Zenon

\* TrimSpace and the rewriting of backslashes leave a path alone that begins and
\* ends without a space and has no backslash.
LEMMA PlainKept ==
  ASSUME NEW S, NEW p \in Seq(S), p # <<>>, p[1] \notin DOMAIN Leading, p[Len(p)] \notin DOMAIN Trailing,
         \A i \in 1 .. Len(p) : p[i] \notin DOMAIN Backslashed
  PROVE  Slashes(TrimSpace(p)) = p
  <1>1. Len(p) \in Nat /\ Len(p) > 0 /\ p = [i \in 1 .. Len(p) |-> p[i]]
    OBVIOUS
  <1>2. ASSUME NEW i \in 1 .. Len(p)
        PROVE  (LET left == IF i = 1 THEN TrimLeft(p[i]) ELSE p[i]
                IN  IF i = Len(p) THEN TrimRight(left) ELSE left) = p[i]
    <2>1. (IF i = 1 THEN TrimLeft(p[i]) ELSE p[i]) = p[i]
      BY DEF TrimLeft
    <2>2. (IF i = Len(p) THEN TrimRight(p[i]) ELSE p[i]) = p[i]
      BY DEF TrimRight
    <2> QED
      BY ONLY <2>1, <2>2, Zenon
  <1>3. TrimSpace(p) = [i \in 1 .. Len(p) |-> p[i]]
    BY ONLY <1>2, Zenon DEF TrimSpace
  <1>4. TrimSpace(p) = p
    BY ONLY <1>1, <1>3
  <1> QED
    BY ONLY <1>4, \A i \in 1 .. Len(p) : p[i] \notin DOMAIN Backslashed, Zenon DEF Slashes

\* A resource with a plain name is normalised to itself.
LEMMA NormalPlain ==
  ASSUME NEW t \in Trees, NEW root \in t.dirs, NEW kind \in Kinds, NEW f \in Resources(t, root, kind), Plain(f)
  PROVE  normalizeSkillRelativePath(f) = f
  <1>1. /\ f \in Seq(Parts) /\ f # <<>>
        /\ \A i \in 1 .. Len(f) : f[i] \notin {"", ".", ".."}
    BY ResourceFacts
  <1>2. Ordinary(f)
    BY ONLY <1>1, Zenon DEF Ordinary
  <1>3. Clean(f) = f
    BY ONLY <1>1, <1>2, CleanOrdinary
  <1>4. Len(f) > 0 /\ Head(f) = f[1] /\ 1 \in 1 .. Len(f)
    <2>1. ASSUME NEW S, NEW g \in Seq(S), g # <<>> PROVE Len(g) > 0 /\ Head(g) = g[1] /\ 1 \in 1 .. Len(g)
      BY <2>1
    <2> QED
      BY ONLY <1>1, <2>1
  <1>5. /\ f[1] \notin DOMAIN Leading /\ f[1] # "c:" /\ f[Len(f)] \notin DOMAIN Trailing
        /\ \A i \in 1 .. Len(f) : f[i] \notin DOMAIN Backslashed
    BY Zenon DEF Plain
  <1>6. Slashes(TrimSpace(f)) = f
    BY ONLY <1>1, <1>5, PlainKept
  <1> QED
    BY ONLY <1>1, <1>3, <1>4, <1>5, <1>6, Zenon DEF normalizeSkillRelativePath, Absolute

\* A resource with a plain name is found under its own path, by load_skill_resource
\* and by run_skill_script.
LEMMA FoundByPath ==
  ASSUME NEW t \in Trees, NEW root \in t.dirs, NEW kind \in Kinds, NEW f \in Resources(t, root, kind), Plain(f)
  PROVE  /\ normalizeResourcePath(<<kind>> \o f) = [kind |-> kind, name |-> f]
         /\ kind = "scripts" => normalizeScriptPath(<<kind>> \o f) = f
  <1>1. f \in Seq(Parts) /\ f # <<>> /\ kind \in Parts
    BY ResourceFacts, PartsFacts
  <1>2. /\ Len(<<kind>> \o f) > 1 /\ (<<kind>> \o f)[1] = kind /\ Tail(<<kind>> \o f) = f
    BY ONLY <1>1, BelowFacts
  <1>3. normalizeSkillRelativePath(f) = f
    BY NormalPlain
  <1>4. Slashes(TrimSpace(<<kind>> \o f)) = <<kind>> \o f
    <2>1. kind \notin DOMAIN Leading /\ kind \notin DOMAIN Backslashed
      BY SkillsAssumption
    <2>2. /\ f[Len(f)] \notin DOMAIN Trailing
          /\ \A i \in 1 .. Len(f) : f[i] \notin DOMAIN Backslashed
      BY Zenon DEF Plain
    <2>3. PICK p : p = <<kind>> \o f
      OBVIOUS
    <2>4. /\ p \in Seq(Parts) /\ p # <<>> /\ p[1] = kind /\ p[Len(p)] = f[Len(f)]
          /\ \A i \in 1 .. Len(p) : i = 1 \/ (i - 1 \in 1 .. Len(f) /\ p[i] = f[i - 1])
      <3>1. ASSUME NEW S, NEW k \in S, NEW g \in Seq(S), g # <<>>
            PROVE  /\ <<k>> \o g \in Seq(S) /\ <<k>> \o g # <<>> /\ (<<k>> \o g)[1] = k
                   /\ (<<k>> \o g)[Len(<<k>> \o g)] = g[Len(g)]
                   /\ \A i \in 1 .. Len(<<k>> \o g) :
                        i = 1 \/ (i - 1 \in 1 .. Len(g) /\ (<<k>> \o g)[i] = g[i - 1])
        <4>1. Len(g) \in Nat /\ Len(g) > 0 /\ <<k>> \in Seq(S) /\ Len(<<k>>) = 1 /\ <<k>>[1] = k
          BY <3>1
        <4>2. <<k>> \o g \in Seq(S) /\ Len(<<k>> \o g) = Len(g) + 1 /\ (<<k>> \o g)[1] = k
          BY <3>1, <4>1
        <4>3. \A i \in 1 .. Len(g) + 1 : i = 1 \/ (i - 1 \in 1 .. Len(g) /\ (<<k>> \o g)[i] = g[i - 1])
          BY <3>1, <4>1
        <4>4. (<<k>> \o g)[Len(g) + 1] = g[Len(g)]
          BY <4>1, <4>3
        <4> QED
          BY <4>1, <4>2, <4>3, <4>4
      <3> QED
        BY ONLY <1>1, <2>3, <3>1
    <2>5. \A i \in 1 .. Len(p) : p[i] \notin DOMAIN Backslashed
      BY ONLY <2>1, <2>2, <2>4, Zenon
    <2>6. p[1] \notin DOMAIN Leading /\ p[Len(p)] \notin DOMAIN Trailing
      BY ONLY <2>1, <2>2, <2>4, Zenon
    <2> QED
      BY ONLY <2>3, <2>4, <2>5, <2>6, PlainKept
  <1>5. normalizeResourcePath(<<kind>> \o f) = [kind |-> kind, name |-> f]
    BY ONLY <1>2, <1>3, <1>4, kind \in Kinds, Zenon DEF normalizeResourcePath
  <1>6. kind = "scripts" => normalizeScriptPath(<<kind>> \o f) = f
    BY ONLY <1>2, <1>3, <1>4, Zenon DEF normalizeScriptPath
  <1> QED
    BY <1>5, <1>6

-----------------------------------------------------------------------------
\* The runs of scripts.
Paths == Seq(Parts)
ScriptRuns == [pc : {"none", "prepare", "running"}, root : Paths, file : Paths, content : Paths,
         killed : BOOLEAN, child : BOOLEAN]

\* A run is of a script of the skill that was named, and once it runs a script of the
\* skill is in its place, or none; where all names are plain, that script.
RunOk(t, e) ==
  /\ e \in ScriptRuns
  /\ e.pc # "none" => e.root \in t.dirs /\ e.file \in Resources(t, e.root, "scripts")
  /\ e.pc = "running" => e.content = <<>> \/ e.content \in Resources(t, e.root, "scripts")
  /\ e.pc = "running" /\ PlainScripts(t, e.root) => e.content = e.file

\* What was returned, or has run, is a file of the skill.
AnswerOwned(t, a) == a.code \in {"content", "success"} => Append(a.root, a.kind) \o a.file \in t.files

\* The inductive invariant of the toolset.
SkillsInv ==
  /\ tree \in Trees
  /\ skills \subseteq detectSkillRoots(tree)
  /\ AnswerOwned(tree, answer)
  /\ script \in [Scripts -> ScriptRuns]
  /\ \A s \in Scripts : RunOk(tree, script[s])

\* A run that has not begun.
LEMMA NoScriptOk == NoScript \in ScriptRuns /\ NoScript.pc = "none" /\ \A t : RunOk(t, NoScript)
  <1>1. <<>> \in Paths
    BY DEF Paths
  <1>2. NoScript \in ScriptRuns
    <2>1. ASSUME NEW P, NEW Q, NEW W, NEW a \in P, NEW b \in Q, NEW c \in W
          PROVE  [pc |-> a, root |-> b, file |-> b, content |-> c, killed |-> FALSE, child |-> FALSE]
                   \in [pc : P, root : Q, file : Q, content : W, killed : BOOLEAN, child : BOOLEAN]
      OBVIOUS
    <2>2. "none" \in {"none", "prepare", "running"}
      BY Zenon
    <2> QED
      BY ONLY <1>1, <2>1, <2>2 DEF NoScript, ScriptRuns
  <1>3. NoScript.pc = "none"
    BY ONLY TRUE DEF NoScript
  <1>4. ASSUME NEW t PROVE RunOk(t, NoScript)
    <2>1. NoScript.pc # "running"
      BY ONLY <1>3, Zenon
    <2> QED
      BY ONLY <1>2, <1>3, <2>1, Zenon DEF RunOk
  <1> QED
    BY <1>2, <1>3, <1>4

\* The fields of a run that an action leaves alone.
LEMMA RunFields ==
  ASSUME NEW P, NEW Q, NEW W, NEW B,
         NEW e \in [pc : P, root : Q, file : Q, content : W, killed : B, child : B],
         NEW a \in P, NEW w \in W, NEW b \in B
  PROVE  LET R == [pc : P, root : Q, file : Q, content : W, killed : B, child : B]
             started == [e EXCEPT !.pc = a, !.content = w]
             k == [e EXCEPT !.killed = b]
             c == [e EXCEPT !.child = b]
         IN  /\ started \in R /\ k \in R /\ c \in R
             /\ started.pc = a /\ started.content = w
             /\ started.root = e.root /\ started.file = e.file
             /\ k.pc = e.pc /\ k.root = e.root /\ k.file = e.file /\ k.content = e.content
             /\ c.pc = e.pc /\ c.root = e.root /\ c.file = e.file /\ c.content = e.content
  OBVIOUS

\* A step that puts one good run in the place of another.
LEMMA Replaced ==
  ASSUME NEW t, NEW S, NEW f \in [S -> ScriptRuns], \A s \in S : RunOk(t, f[s]), NEW s \in S, NEW e, RunOk(t, e)
  PROVE  /\ [f EXCEPT ![s] = e] \in [S -> ScriptRuns]
         /\ \A q \in S : RunOk(t, [f EXCEPT ![s] = e][q])
  <1>1. e \in ScriptRuns
    BY DEF RunOk
  <1>2. \A q \in S : [f EXCEPT ![s] = e][q] = IF q = s THEN e ELSE f[q]
    OBVIOUS
  <1> QED
    BY <1>1, <1>2

\* In the beginning.
LEMMA SkillsInvInit == SInit => SkillsInv
  <1> SUFFICES ASSUME SInit PROVE SkillsInv
    OBVIOUS
  <1>1. tree \in Trees /\ skills = {} /\ answer = NoAnswer /\ script = [s \in Scripts |-> NoScript]
    BY DEF SInit
  <1>2. AnswerOwned(tree, answer)
    <2>1. NoAnswer.code = "none"
      BY ONLY TRUE DEF NoAnswer
    <2> QED
      BY ONLY <1>1, <2>1, Zenon DEF AnswerOwned
  <1>3. script \in [Scripts -> ScriptRuns] /\ \A s \in Scripts : RunOk(tree, script[s])
    BY ONLY <1>1, NoScriptOk
  <1> QED
    BY <1>1, <1>2, <1>3 DEF SkillsInv

\* The loader.
LEMMA LoadKeeps == SkillsInv /\ Load => SkillsInv'
  <1> SUFFICES ASSUME SkillsInv, Load PROVE SkillsInv'
    OBVIOUS
  <1>1. tree' = tree /\ answer' = answer /\ script' = script
    BY DEF Load
  <1>2. skills' = detectSkillRoots(tree) \/ skills' = skills
    BY Zenon DEF Load
  <1>3. skills' \subseteq detectSkillRoots(tree')
    BY ONLY <1>1, <1>2, SkillsInv DEF SkillsInv
  <1> QED
    BY <1>1, <1>3 DEF SkillsInv

\* A step after which the tree and the skills are the same.
LEMMA StillOk ==
  ASSUME SkillsInv, tree' = tree, skills' = skills, AnswerOwned(tree, answer'),
         script' \in [Scripts -> ScriptRuns], \A s \in Scripts : RunOk(tree, script'[s])
  PROVE  SkillsInv'
  BY DEF SkillsInv

\* An answer that reports a failure.
LEMMA FailureOwned ==
  ASSUME NEW t, NEW code, code \notin {"content", "success"}, NEW root, NEW kind, NEW file
  PROVE  AnswerOwned(t, Answer(code, root, kind, file))
  <1>1. Answer(code, root, kind, file).code = code
    BY ONLY TRUE DEF Answer
  <1> QED
    BY ONLY <1>1, code \notin {"content", "success"}, Zenon DEF AnswerOwned

\* An answer about a resource.
LEMMA ResourceOwned ==
  ASSUME NEW t, NEW code, NEW root, NEW kind, NEW file \in Resources(t, root, kind)
  PROVE  AnswerOwned(t, Answer(code, root, kind, file))
  <1>1. /\ Answer(code, root, kind, file).root = root /\ Answer(code, root, kind, file).kind = kind
        /\ Answer(code, root, kind, file).file = file
    BY ONLY TRUE DEF Answer
  <1>2. Append(root, kind) \o file \in t.files
    BY DEF Resources
  <1> QED
    BY ONLY <1>1, <1>2, Zenon DEF AnswerOwned

\* The tools that read, and the reading of their answers.
LEMMA AnswersKeep ==
  ASSUME SkillsInv, Reads \/ (\E root \in tree.dirs : LoadSkill(root))
                      \/ (\E root \in tree.dirs, p \in Requests : LoadSkillResource(root, p))
  PROVE  SkillsInv'
  <1>1. tree' = tree /\ skills' = skills /\ script' = script
    BY DEF Reads, LoadSkill, LoadSkillResource
  <1>2. AnswerOwned(tree, answer')
    <2>1. CASE Reads
      <3>1. answer' = NoAnswer /\ NoAnswer.code = "none"
        BY <2>1 DEF Reads, NoAnswer
      <3> QED
        BY ONLY <3>1, Zenon DEF AnswerOwned
    <2>2. ASSUME NEW root \in tree.dirs, LoadSkill(root) PROVE AnswerOwned(tree, answer')
      <3>1. PICK code : code = IF root \in skills THEN "instructions" ELSE "SKILL_NOT_FOUND"
        OBVIOUS
      <3>2. answer' = Answer(code, root, "", <<>>)
        BY <2>2, <3>1, Zenon DEF LoadSkill
      <3>3. code \notin {"content", "success"}
        BY ONLY <3>1, Zenon
      <3> QED
        BY ONLY <3>2, <3>3, FailureOwned
    <2>3. ASSUME NEW root \in tree.dirs, NEW p \in Requests, LoadSkillResource(root, p)
          PROVE  AnswerOwned(tree, answer')
      <3>1. PICK res : res = normalizeResourcePath(p)
        OBVIOUS
      <3>2. answer' =
              CASE p = <<"">> -> Answer("MISSING_RESOURCE_PATH", root, "", <<>>)
                [] p # <<"">> /\ root \notin skills -> Answer("SKILL_NOT_FOUND", root, "", <<>>)
                [] p # <<"">> /\ root \in skills /\ res.name = <<>> ->
                     Answer("INVALID_RESOURCE_PATH", root, "", <<>>)
                [] OTHER -> Answer(IF res.name \in Resources(tree, root, res.kind)
                                   THEN "content" ELSE "RESOURCE_NOT_FOUND",
                                   root, res.kind, res.name)
        BY <2>3, <3>1, Zenon DEF LoadSkillResource
      <3>3. /\ AnswerOwned(tree, Answer("MISSING_RESOURCE_PATH", root, "", <<>>))
            /\ AnswerOwned(tree, Answer("SKILL_NOT_FOUND", root, "", <<>>))
            /\ AnswerOwned(tree, Answer("INVALID_RESOURCE_PATH", root, "", <<>>))
        <4>1. /\ "MISSING_RESOURCE_PATH" \notin {"content", "success"}
              /\ "SKILL_NOT_FOUND" \notin {"content", "success"}
              /\ "INVALID_RESOURCE_PATH" \notin {"content", "success"}
          BY ONLY Zenon
        <4> QED
          BY ONLY <4>1, FailureOwned
      <3>4. AnswerOwned(tree, Answer(IF res.name \in Resources(tree, root, res.kind)
                                     THEN "content" ELSE "RESOURCE_NOT_FOUND",
                                     root, res.kind, res.name))
        <4>1. PICK code : code = IF res.name \in Resources(tree, root, res.kind)
                                 THEN "content" ELSE "RESOURCE_NOT_FOUND"
          OBVIOUS
        <4>2. res.name \in Resources(tree, root, res.kind) \/ code \notin {"content", "success"}
          BY ONLY <4>1, Zenon
        <4>3. AnswerOwned(tree, Answer(code, root, res.kind, res.name))
          BY ONLY <4>2, FailureOwned, ResourceOwned
        <4> QED
          BY ONLY <4>1, <4>3, Zenon
      <3> QED
        BY ONLY <3>2, <3>3, <3>4, Zenon
    <2> QED
      BY <2>1, <2>2, <2>3
  <1>3. script' \in [Scripts -> ScriptRuns] /\ \A s \in Scripts : RunOk(tree, script'[s])
    BY <1>1 DEF SkillsInv
  <1> QED
    BY <1>1, <1>2, <1>3, StillOk

\* run_skill_script up to its content.
LEMMA RunKeeps ==
  ASSUME SkillsInv, NEW s \in Scripts, NEW root \in tree.dirs, NEW p \in Requests,
         NEW timeout \in BOOLEAN, NEW env \in BOOLEAN, RunSkillScript(s, root, p, timeout, env)
  PROVE  SkillsInv'
  <1>1. /\ tree' = tree /\ skills' = skills /\ tree \in Trees /\ AnswerOwned(tree, answer)
        /\ script \in [Scripts -> ScriptRuns] /\ \A q \in Scripts : RunOk(tree, script[q])
    BY DEF RunSkillScript, SkillsInv
  <1>2. PICK name, refusal :
          /\ name = normalizeScriptPath(p)
          /\ refusal = CASE p = <<"">> -> "MISSING_SCRIPT_PATH"
                         [] p # <<"">> /\ root \notin skills -> "SKILL_NOT_FOUND"
                         [] p # <<"">> /\ root \in skills /\ name = <<>> -> "INVALID_SCRIPT_PATH"
                         [] name # <<>> /\ root \in skills /\ name \notin Resources(tree, root, "scripts") ->
                              "SCRIPT_NOT_FOUND"
                         [] OTHER -> IF ~ timeout THEN "INVALID_TIMEOUT"
                                     ELSE IF ~ env THEN "INVALID_ENV" ELSE "none"
    OBVIOUS
  <1>3. /\ refusal # "none" => answer' = Answer(refusal, root, "scripts", name) /\ script' = script
        /\ refusal = "none" =>
             /\ answer' = answer
             /\ script' = [script EXCEPT ![s] = [NoScript EXCEPT !.pc = "prepare", !.root = root,
                                                                 !.file = name]]
    BY <1>2, Zenon DEF RunSkillScript
  <1>4. /\ refusal \notin {"content", "success"}
        /\ refusal = "none" => root \in skills /\ name \in Resources(tree, root, "scripts")
    BY ONLY <1>2, Zenon
  <1>5. CASE refusal # "none"
    <2>1. AnswerOwned(tree, answer') /\ script' = script
      BY ONLY <1>3, <1>4, <1>5, FailureOwned
    <2> QED
      BY <1>1, <2>1, StillOk
  <1>6. CASE refusal = "none"
    <2> DEFINE e == [NoScript EXCEPT !.pc = "prepare", !.root = root, !.file = name]
    <2>1. name \in Resources(tree, root, "scripts") /\ "scripts" \in Kinds
      BY <1>4, <1>6, Zenon DEF Kinds
    <2>2. name \in Paths /\ root \in Paths
      <3>1. root \in Seq(STRING)
        BY <1>1, SkillsAssumption
      <3> QED
        BY <1>1, <2>1, <3>1, ResourceFacts, PartsFacts DEF Paths
    <2>3. e \in ScriptRuns /\ e.pc = "prepare" /\ e.root = root /\ e.file = name
      <3>1. ASSUME NEW P, NEW Q, NEW W, NEW n \in [pc : P, root : Q, file : Q, content : W,
                                                   killed : BOOLEAN, child : BOOLEAN],
                   NEW a \in P, NEW r \in Q, NEW f \in Q, NEW x, x = [n EXCEPT !.pc = a, !.root = r, !.file = f]
            PROVE  /\ x \in [pc : P, root : Q, file : Q, content : W, killed : BOOLEAN, child : BOOLEAN]
                   /\ x.pc = a /\ x.root = r /\ x.file = f
        BY <3>1
      <3>2. "prepare" \in {"none", "prepare", "running"}
        BY Zenon
      <3> QED
        BY ONLY <2>2, <3>1, <3>2, NoScriptOk DEF ScriptRuns
    <2>4. RunOk(tree, e)
      <3> HIDE DEF e
      <3> QED
        BY ONLY <2>1, <2>3, root \in tree.dirs, Zenon DEF RunOk
    <2>5. script' = [script EXCEPT ![s] = e] /\ answer' = answer
      BY <1>3, <1>6
    <2> HIDE DEF e
    <2>6. script' \in [Scripts -> ScriptRuns] /\ \A q \in Scripts : RunOk(tree, script'[q])
      BY ONLY <1>1, <2>4, <2>5, Replaced, s \in Scripts
    <2> QED
      BY <1>1, <2>5, <2>6, StillOk
  <1> QED
    BY <1>5, <1>6

\* What is in the place of the script is a script of the skill, and where all names
\* are plain only the script itself is written there.
LEMMA MaterializeKeeps ==
  ASSUME SkillsInv, NEW s \in Scripts, Materialize(s)
  PROVE  SkillsInv'
  <1>1. /\ tree' = tree /\ skills' = skills /\ tree \in Trees /\ AnswerOwned(tree, answer)
        /\ script \in [Scripts -> ScriptRuns] /\ \A q \in Scripts : RunOk(tree, script[q])
    BY DEF Materialize, SkillsInv
  <1>2. script[s].pc = "prepare" /\ script[s] \in ScriptRuns
    BY <1>1 DEF Materialize
  <1>3. script[s].root \in tree.dirs /\ script[s].file \in Resources(tree, script[s].root, "scripts")
    <2>1. script[s].pc # "none"
      BY ONLY <1>2, Zenon
    <2> QED
      BY ONLY <1>1, <2>1, s \in Scripts, Zenon DEF RunOk
  <1>4. PICK written :
          written = {f \in Resources(tree, script[s].root, "scripts") :
                       normalizeSkillRelativePath(f) = script[s].file}
    OBVIOUS
  <1>5. \/ \E w \in IF written = {} THEN {<<>>} ELSE written :
             script' = [script EXCEPT ![s].pc = "running", ![s].content = w] /\ answer' = answer
        \/ /\ script' = [script EXCEPT ![s] = NoScript]
           /\ answer' = Answer("WORKSPACE_ERROR", script[s].root, "scripts", script[s].file)
    BY <1>4 DEF Materialize
  <1>6. ASSUME NEW w, w \in IF written = {} THEN {<<>>} ELSE written,
               script' = [script EXCEPT ![s].pc = "running", ![s].content = w], answer' = answer
        PROVE  SkillsInv'
    <2>0. "scripts" \in Kinds
      BY Zenon DEF Kinds
    <2>1. w = <<>> \/ w \in Resources(tree, script[s].root, "scripts")
      BY ONLY <1>4, <1>6, Zenon
    <2>2. w \in Paths
      <3>1. ASSUME NEW S PROVE <<>> \in Seq(S)
        OBVIOUS
      <3>2. \A f \in Resources(tree, script[s].root, "scripts") : f \in Seq(Parts)
        BY <1>1, <1>3, <2>0, ResourceFacts
      <3> QED
        BY ONLY <2>1, <3>1, <3>2 DEF Paths
    <2>3. PlainScripts(tree, script[s].root) => w = script[s].file
      <3> SUFFICES ASSUME PlainScripts(tree, script[s].root) PROVE w = script[s].file
        OBVIOUS
      <3>1. \A f \in Resources(tree, script[s].root, "scripts") : normalizeSkillRelativePath(f) = f
        BY <1>1, <1>3, <2>0, NormalPlain DEF PlainScripts
      <3>2. script[s].file \in written
        BY ONLY <1>3, <1>4, <3>1, Zenon
      <3>3. \A f \in written : f = script[s].file
        BY ONLY <1>4, <3>1, Zenon
      <3> QED
        BY ONLY <1>6, <3>2, <3>3, Zenon
    <2> DEFINE e == [script[s] EXCEPT !.pc = "running", !.content = w]
    <2>4. script' = [script EXCEPT ![s] = e]
      BY ONLY <1>6
    <2>5. e \in ScriptRuns /\ e.pc = "running" /\ e.root = script[s].root /\ e.file = script[s].file /\ e.content = w
      <3>1. "running" \in {"none", "prepare", "running"}
        BY Zenon
      <3>2. TRUE \in BOOLEAN
        OBVIOUS
      <3> QED
        BY ONLY <1>2, <2>2, <3>1, <3>2, RunFields DEF ScriptRuns
    <2> HIDE DEF e
    <2>6. RunOk(tree, e)
      BY ONLY <1>3, <2>1, <2>3, <2>5, Zenon DEF RunOk
    <2>7. script' \in [Scripts -> ScriptRuns] /\ \A q \in Scripts : RunOk(tree, script'[q])
      BY ONLY <1>1, <2>4, <2>6, Replaced, s \in Scripts
    <2> QED
      BY <1>1, <1>6, <2>7, StillOk
  <1>7. CASE /\ script' = [script EXCEPT ![s] = NoScript]
             /\ answer' = Answer("WORKSPACE_ERROR", script[s].root, "scripts", script[s].file)
    <2>1. AnswerOwned(tree, answer')
      <3>1. "WORKSPACE_ERROR" \notin {"content", "success"}
        BY ONLY Zenon
      <3> QED
        BY ONLY <1>7, <3>1, FailureOwned
    <2>2. script' \in [Scripts -> ScriptRuns] /\ \A q \in Scripts : RunOk(tree, script'[q])
      BY ONLY <1>1, <1>7, NoScriptOk, Replaced, s \in Scripts
    <2> QED
      BY <1>1, <2>1, <2>2, StillOk
  <1> QED
    BY <1>5, <1>6, <1>7

\* The process of a run, and what it leaves.
LEMMA ProcessKeeps ==
  ASSUME SkillsInv, NEW s \in Scripts, Forks(s) \/ Kills(s) \/ Finishes(s) \/ ChildEnds(s)
  PROVE  SkillsInv'
  <1>1. /\ tree' = tree /\ skills' = skills /\ tree \in Trees /\ AnswerOwned(tree, answer)
        /\ script \in [Scripts -> ScriptRuns] /\ \A q \in Scripts : RunOk(tree, script[q])
    BY DEF Forks, Kills, Finishes, ChildEnds, SkillsInv
  <1>2. CASE Forks(s) \/ Kills(s) \/ ChildEnds(s)
    <2>1. answer' = answer
      BY <1>2 DEF Forks, Kills, ChildEnds
    <2>2. PICK b \in BOOLEAN : \/ script' = [script EXCEPT ![s].killed = b]
                               \/ script' = [script EXCEPT ![s].child = b]
      BY <1>2 DEF Forks, Kills, ChildEnds
    <2>3. PICK e : /\ e = [script[s] EXCEPT !.killed = b] \/ e = [script[s] EXCEPT !.child = b]
                   /\ script' = [script EXCEPT ![s] = e]
      BY ONLY <2>2
    <2>4. /\ e \in ScriptRuns /\ e.pc = script[s].pc /\ e.root = script[s].root /\ e.file = script[s].file
          /\ e.content = script[s].content
      <3>1. script[s] \in ScriptRuns
        BY ONLY <1>1, s \in Scripts
      <3>2. "none" \in {"none", "prepare", "running"} /\ <<>> \in Paths
        BY DEF Paths
      <3>3. CASE e = [script[s] EXCEPT !.killed = b]
        BY ONLY <3>1, <3>2, <3>3, b \in BOOLEAN, RunFields DEF ScriptRuns
      <3>4. CASE e = [script[s] EXCEPT !.child = b]
        BY ONLY <3>1, <3>2, <3>4, b \in BOOLEAN, RunFields DEF ScriptRuns
      <3> QED
        BY ONLY <2>3, <3>3, <3>4
    <2>5. RunOk(tree, e)
      BY ONLY <1>1, <2>4, s \in Scripts, Zenon DEF RunOk
    <2>6. script' \in [Scripts -> ScriptRuns] /\ \A q \in Scripts : RunOk(tree, script'[q])
      BY ONLY <1>1, <2>3, <2>5, Replaced, s \in Scripts
    <2> QED
      BY <1>1, <2>1, <2>6, StillOk
  <1>3. CASE Finishes(s)
    <2>1. PICK status : /\ status = "success" => script[s].content # <<>>
                        /\ status \in {"success", "error", "timeout", "EXECUTION_ERROR"}
                        /\ answer' = Answer(status, script[s].root, "scripts", script[s].content)
      BY <1>3, Zenon DEF Finishes
    <2>2. script[s].pc = "running" /\ script' = [script EXCEPT ![s] = NoScript]
      BY <1>3 DEF Finishes
    <2>3. script[s].content = <<>> \/ script[s].content \in Resources(tree, script[s].root, "scripts")
      BY ONLY <1>1, <2>2, s \in Scripts, Zenon DEF RunOk
    <2>4. AnswerOwned(tree, answer')
      <3>1. CASE script[s].content = <<>>
        <4>1. status \notin {"content", "success"}
          BY ONLY <2>1, <3>1, Zenon
        <4> QED
          BY ONLY <2>1, <4>1, FailureOwned
      <3>2. CASE script[s].content \in Resources(tree, script[s].root, "scripts")
        BY ONLY <2>1, <3>2, ResourceOwned
      <3> QED
        BY ONLY <2>3, <3>1, <3>2
    <2>5. script' \in [Scripts -> ScriptRuns] /\ \A q \in Scripts : RunOk(tree, script'[q])
      BY ONLY <1>1, <2>2, NoScriptOk, Replaced, s \in Scripts
    <2> QED
      BY <1>1, <2>4, <2>5, StillOk
  <1> QED
    BY <1>2, <1>3

\* The invariant gives the property.
LEMMA SkillsInvOwned == SkillsInv => FilesOwned
  <1> SUFFICES ASSUME SkillsInv PROVE FilesOwned
    OBVIOUS
  <1>1. /\ tree \in Trees /\ skills \subseteq detectSkillRoots(tree) /\ AnswerOwned(tree, answer)
        /\ \A s \in Scripts : RunOk(tree, script[s])
    BY DEF SkillsInv
  <1>2. skills \subseteq tree.dirs
    BY <1>1, RootsFacts
  <1>3. ASSUME NEW r \in skills, NEW q \in skills, NEW k \in Kinds, NEW l \in Kinds,
               NEW f \in Resources(tree, r, k), NEW g \in Resources(tree, q, l),
               Append(r, k) \o f = Append(q, l) \o g
        PROVE  r = q
    <2>1. f \in Seq(Parts) /\ g \in Seq(Parts)
      BY <1>1, <1>2, ResourceFacts
    <2>2. r \in detectSkillRoots(tree) /\ q \in detectSkillRoots(tree)
      BY <1>1
    <2>3. tree \in Trees /\ \E p : p = Append(r, k) \o f /\ p = Append(q, l) \o g
      BY <1>1, <1>3
    <2> QED
      BY ONLY <2>1, <2>2, <2>3, k \in Kinds, l \in Kinds, OneOwner, Zenon
  <1>4. ASSUME NEW r \in skills, NEW k \in Kinds, NEW f \in Resources(tree, r, k), Plain(f)
        PROVE  /\ normalizeResourcePath(<<k>> \o f) = [kind |-> k, name |-> f]
               /\ k = "scripts" => normalizeScriptPath(<<k>> \o f) = f
    BY <1>1, <1>2, <1>4, FoundByPath
  <1>5. \A s \in Scripts :
          script[s].pc = "running" /\ PlainScripts(tree, script[s].root) => script[s].content = script[s].file
    BY ONLY <1>1, Zenon DEF RunOk
  <1>6. answer.code \in {"content", "success"} => Append(answer.root, answer.kind) \o answer.file \in tree.files
    BY ONLY <1>1, Zenon DEF AnswerOwned
  <1> QED
    BY ONLY <1>3, <1>4, <1>5, <1>6, Zenon DEF FilesOwned

\* The files of a skill are its own (loader.go, toolset.go): no file is a resource
\* of two skills, what is returned or run is a file of the skill and the directory
\* that were named, every resource whose name is plain is found under its own path,
\* and where all scripts have plain names the one that was named runs.
THEOREM FilesOwnedHolds == SSpec => []FilesOwned
  <1>1. SkillsInv /\ [SNext]_svars => SkillsInv'
    <2> SUFFICES ASSUME SkillsInv, [SNext]_svars PROVE SkillsInv'
      OBVIOUS
    <2>1. CASE Load
      BY <2>1, LoadKeeps
    <2>2. CASE Reads \/ (\E root \in tree.dirs : LoadSkill(root))
                     \/ (\E root \in tree.dirs, p \in Requests : LoadSkillResource(root, p))
      BY <2>2, AnswersKeep
    <2>3. ASSUME NEW s \in Scripts,
                 \E root \in tree.dirs, p \in Requests, timeout, env \in BOOLEAN :
                   RunSkillScript(s, root, p, timeout, env)
          PROVE  SkillsInv'
      BY <2>3, RunKeeps
    <2>4. ASSUME NEW s \in Scripts, Materialize(s) PROVE SkillsInv'
      BY <2>4, MaterializeKeeps
    <2>5. ASSUME NEW s \in Scripts, Forks(s) \/ Kills(s) \/ Finishes(s) \/ ChildEnds(s) PROVE SkillsInv'
      BY <2>5, ProcessKeeps
    <2>6. CASE UNCHANGED svars
      BY <2>6 DEF SkillsInv, svars
    <2> QED
      BY <2>1, <2>2, <2>3, <2>4, <2>5, <2>6 DEF SNext
  <1> QED
    BY <1>1, SkillsInvInit, SkillsInvOwned, PTL DEF SSpec

-----------------------------------------------------------------------------
(***************************************************************************)
(* Transcript: sums.                                                       *)
(***************************************************************************)
\* The sums of the first numbers of a sequence.
Sums(s, f) == f[0] = 0 /\ \A i \in 1 .. Len(s) : f[i] = f[i - 1] + s[i]

\* There are such sums.
LEMMA SumsExist ==
  ASSUME NEW s \in Seq(Nat)
  PROVE  \E f \in [0 .. Len(s) -> Nat] : Sums(s, f)
  <1>1. Len(s) \in Nat /\ \A i \in 1 .. Len(s) : s[i] \in Nat
    OBVIOUS
  <1> DEFINE Upto(n, f) == f[0] = 0 /\ \A i \in 1 .. n : f[i] = f[i - 1] + s[i]
             P == {n \in Nat : n <= Len(s) => \E f \in [0 .. n -> Nat] : Upto(n, f)}
  <1>2. 0 \in P
    <2>1. [i \in 0 .. 0 |-> 0] \in [0 .. 0 -> Nat] /\ Upto(0, [i \in 0 .. 0 |-> 0])
      OBVIOUS
    <2> QED
      BY <2>1
  <1>3. ASSUME NEW x \in 1 .. Len(s), x - 1 \in P PROVE x \in P
    <2>1. x \in Nat /\ x - 1 \in Nat /\ x - 1 <= Len(s) /\ s[x] \in Nat
      BY <1>1
    <2>2. PICK f \in [0 .. x - 1 -> Nat] : Upto(x - 1, f)
      BY <1>3, <2>1
    <2> DEFINE g == [i \in 0 .. x |-> IF i = x THEN f[x - 1] + s[x] ELSE f[i]]
    <2>3. f[x - 1] \in Nat
      BY <2>1
    <2>4. g \in [0 .. x -> Nat]
      <3>1. ASSUME NEW i \in 0 .. x PROVE (IF i = x THEN f[x - 1] + s[x] ELSE f[i]) \in Nat
        BY <2>1, <2>3
      <3> QED
        BY <3>1
    <2>5. Upto(x, g)
      <3>1. g[0] = 0
        BY <2>1, <2>2
      <3>2. ASSUME NEW i \in 1 .. x PROVE g[i] = g[i - 1] + s[i]
        <4>1. i \in 0 .. x /\ i - 1 \in 0 .. x /\ i - 1 # x
          BY <2>1
        <4>2. g[i - 1] = f[i - 1]
          BY <4>1
        <4>3. CASE i = x
          BY <4>1, <4>2, <4>3
        <4>4. CASE i # x
          <5>1. i \in 1 .. x - 1
            BY <2>1, <4>4
          <5>2. f[i] = f[i - 1] + s[i]
            BY <2>2, <5>1
          <5> QED
            BY <4>1, <4>2, <4>4, <5>2
        <4> QED
          BY <4>3, <4>4
      <3> QED
        BY <3>1, <3>2
    <2> HIDE DEF g
    <2> QED
      BY <2>1, <2>4, <2>5
  <1>4. Len(s) \in P
    <2> HIDE DEF P
    <2> QED
      BY <1>1, <1>2, <1>3, FirstMissing
  <1> QED
    BY <1>1, <1>4 DEF Sums

\* And they are the same.
LEMMA SumsUnique ==
  ASSUME NEW s \in Seq(Nat), NEW f, NEW g, Sums(s, f), Sums(s, g)
  PROVE  f[Len(s)] = g[Len(s)]
  <1>1. Len(s) \in Nat
    OBVIOUS
  <1> DEFINE P == {n \in Nat : n <= Len(s) => f[n] = g[n]}
  <1>2. 0 \in P
    BY DEF Sums
  <1>3. ASSUME NEW x \in 1 .. Len(s), x - 1 \in P PROVE x \in P
    <2>1. x \in Nat /\ x - 1 <= Len(s) /\ x - 1 \in Nat
      BY <1>1
    <2>2. f[x - 1] = g[x - 1]
      BY <1>3, <2>1
    <2>3. f[x] = g[x]
      BY <2>2 DEF Sums
    <2> QED
      BY <2>1, <2>3
  <1>4. Len(s) \in P
    <2> HIDE DEF P
    <2> QED
      BY <1>1, <1>2, <1>3, FirstMissing
  <1> QED
    BY <1>1, <1>4

\* Total is the last of them.
LEMMA TotalIs ==
  ASSUME NEW s \in Seq(Nat), NEW f, Sums(s, f)
  PROVE  Total(s) = f[Len(s)] /\ Total(s) \in Nat
  <1>1. Len(s) \in Nat /\ \A i \in 1 .. Len(s) : i \in 0 .. Len(s) /\ i # 0
    OBVIOUS
  <1> DEFINE Totals(h) == h = [i \in 0 .. Len(s) |-> IF i = 0 THEN 0 ELSE h[i - 1] + s[i]]
  <1>2. PICK g \in [0 .. Len(s) -> Nat] : Sums(s, g)
    BY SumsExist
  <1>3. Totals(g)
    <2>1. ASSUME NEW i \in 0 .. Len(s) PROVE g[i] = IF i = 0 THEN 0 ELSE g[i - 1] + s[i]
      BY <1>2 DEF Sums
    <2> QED
      BY <2>1
  <1>4. Total(s) = (CHOOSE h : Totals(h))[Len(s)]
    BY DEF Total
  <1>5. PICK h : h = (CHOOSE k : Totals(k))
    OBVIOUS
  <1>6. Totals(h)
    BY <1>3, <1>5
  <1>7. Sums(s, h)
    <2>1. h[0] = 0
      BY <1>1, <1>6
    <2>2. \A i \in 1 .. Len(s) : h[i] = h[i - 1] + s[i]
      BY <1>1, <1>6
    <2> QED
      BY <2>1, <2>2 DEF Sums
  <1>8. h[Len(s)] = f[Len(s)] /\ h[Len(s)] = g[Len(s)]
    BY <1>2, <1>7, SumsUnique
  <1>9. g[Len(s)] \in Nat
    BY <1>1
  <1> QED
    BY <1>4, <1>5, <1>8, <1>9

\* The first and the last messages.
LEMMA EndFacts ==
  ASSUME NEW M, NEW s \in Seq(M), NEW i \in Nat, NEW n \in Nat, n <= Len(s), i <= n
  PROVE  /\ SubSeq(s, i + 1, n) \in Seq(M) /\ Len(SubSeq(s, i + 1, n)) = n - i
         /\ \A j \in 1 .. n - i : SubSeq(s, i + 1, n)[j] = s[i + j]
  <1>1. Len(s) \in Nat /\ \A j \in (i + 1) .. n : s[j] \in M
    OBVIOUS
  <1>2. SubSeq(s, i + 1, n) \in Seq(M)
    BY <1>1
  <1>3. Len(SubSeq(s, i + 1, n)) = n - i
    BY <1>1
  <1>4. ASSUME NEW j \in 1 .. n - i PROVE SubSeq(s, i + 1, n)[j] = s[i + j]
    <2>1. SubSeq(s, i + 1, n)[j] = s[j + (i + 1) - 1]
      BY <1>1
    <2>2. j + (i + 1) - 1 = i + j
      OBVIOUS
    <2> QED
      BY <2>1, <2>2
  <1> QED
    BY <1>2, <1>3, <1>4

\* The sizes of messages.
Sizes(messages) == [j \in 1 .. Len(messages) |-> Size(messages[j])]

LEMMA SizesFacts ==
  ASSUME NEW M, \A x \in M : Size(x) \in Nat, NEW s \in Seq(M)
  PROVE  /\ Sizes(s) \in Seq(Nat) /\ Len(Sizes(s)) = Len(s) /\ Count(s) = Total(Sizes(s))
         /\ \A j \in 1 .. Len(s) : Sizes(s)[j] = Size(s[j])
         /\ Count(s) \in Nat
  <1>1. Len(s) \in Nat /\ \A j \in 1 .. Len(s) : Size(s[j]) \in Nat
    OBVIOUS
  <1>2. Sizes(s) \in Seq(Nat) /\ Len(Sizes(s)) = Len(s)
    BY <1>1 DEF Sizes
  <1>3. Count(s) = Total(Sizes(s))
    BY DEF Count, Sizes
  <1>4. PICK f : Sums(Sizes(s), f)
    BY <1>2, SumsExist
  <1>5. Total(Sizes(s)) \in Nat
    BY <1>2, <1>4, TotalIs
  <1>6. \A j \in 1 .. Len(s) : Sizes(s)[j] = Size(s[j])
    BY DEF Sizes
  <1> QED
    BY <1>2, <1>3, <1>5, <1>6

\* The tokens of all messages without those of the first ones are the tokens of
\* the others.
LEMMA CountRest ==
  ASSUME NEW M, \A x \in M : Size(x) \in Nat, NEW s \in Seq(M), NEW i \in 0 .. Len(s)
  PROVE  Count(s) - Count(SubSeq(s, 1, i)) = Count(SubSeq(s, i + 1, Len(s)))
  <1>1. Len(s) \in Nat /\ i \in Nat /\ i <= Len(s) /\ Len(s) - i \in Nat
    OBVIOUS
  <1>2. PICK z : z = Sizes(s)
    OBVIOUS
  <1>3. /\ z \in Seq(Nat) /\ Len(z) = Len(s) /\ Count(s) = Total(z)
        /\ \A j \in 1 .. Len(s) : z[j] = Size(s[j]) /\ z[j] \in Nat
    <2>1. /\ z \in Seq(Nat) /\ Len(z) = Len(s) /\ Count(s) = Total(z)
          /\ \A j \in 1 .. Len(s) : z[j] = Size(s[j])
      BY <1>2, SizesFacts
    <2>2. \A j \in 1 .. Len(s) : z[j] \in Nat
      BY <2>1
    <2> QED
      BY <2>1, <2>2
  <1>4. PICK f \in [0 .. Len(z) -> Nat] : Sums(z, f)
    BY <1>3, SumsExist
  <1>5. /\ f[0] = 0 /\ \A j \in 1 .. Len(s) : f[j] = f[j - 1] + z[j]
        /\ \A j \in 0 .. Len(s) : f[j] \in Nat
    BY <1>3, <1>4 DEF Sums
  <1>6. Count(s) = f[Len(s)]
    BY <1>3, <1>4, TotalIs
  <1>7. Count(SubSeq(s, 1, i)) = f[i]
    <2>1. PICK t : t = SubSeq(s, 1, i)
      OBVIOUS
    <2>2. t \in Seq(M) /\ Len(t) = i /\ \A j \in 1 .. i : t[j] = s[j]
      <3>1. 0 \in Nat /\ 0 <= i /\ i - 0 = i /\ 0 + 1 = 1 /\ \A j \in 1 .. i : 0 + j = j
        BY <1>1
      <3>2. /\ SubSeq(s, 0 + 1, i) \in Seq(M) /\ Len(SubSeq(s, 0 + 1, i)) = i - 0
            /\ \A j \in 1 .. i - 0 : SubSeq(s, 0 + 1, i)[j] = s[0 + j]
        BY ONLY <1>1, <3>1, EndFacts, s \in Seq(M)
      <3> QED
        BY ONLY <2>1, <3>1, <3>2
    <2>3. /\ Sizes(t) \in Seq(Nat) /\ Len(Sizes(t)) = i /\ Count(t) = Total(Sizes(t))
          /\ \A j \in 1 .. i : Sizes(t)[j] = Size(t[j])
      BY <2>2, SizesFacts
    <2>4. \A j \in 1 .. i : Sizes(t)[j] = z[j] /\ j \in 1 .. Len(s)
      BY ONLY <1>1, <1>3, <2>2, <2>3
    <2>5. Sums(Sizes(t), f)
      BY ONLY <1>5, <2>3, <2>4 DEF Sums
    <2>6. Total(Sizes(t)) = f[i]
      BY <2>3, <2>5, TotalIs
    <2> QED
      BY <2>1, <2>3, <2>6
  <1>8. Count(SubSeq(s, i + 1, Len(s))) = f[Len(s)] - f[i]
    <2>1. PICK t : t = SubSeq(s, i + 1, Len(s))
      OBVIOUS
    <2>2. t \in Seq(M) /\ Len(t) = Len(s) - i /\ \A j \in 1 .. Len(s) - i : t[j] = s[i + j]
      BY ONLY <1>1, <2>1, EndFacts, s \in Seq(M)
    <2>3. /\ Sizes(t) \in Seq(Nat) /\ Len(Sizes(t)) = Len(s) - i /\ Count(t) = Total(Sizes(t))
          /\ \A j \in 1 .. Len(s) - i : Sizes(t)[j] = Size(t[j])
      BY <2>2, SizesFacts
    <2> DEFINE h == [j \in 0 .. Len(s) - i |-> f[i + j] - f[i]]
    <2>4. h[0] = 0
      <3>1. 0 \in 0 .. Len(s) - i /\ i + 0 = i /\ f[i] \in Nat
        BY ONLY <1>1, <1>5
      <3> QED
        BY <3>1
    <2>5. ASSUME NEW j \in 1 .. Len(s) - i PROVE h[j] = h[j - 1] + Sizes(t)[j]
      <3>1. /\ j \in 0 .. Len(s) - i /\ j - 1 \in 0 .. Len(s) - i /\ i + (j - 1) = (i + j) - 1
            /\ i + j \in 1 .. Len(s) /\ i + j \in 0 .. Len(s) /\ (i + j) - 1 \in 0 .. Len(s) /\ i \in 0 .. Len(s)
        BY ONLY <1>1, j \in 1 .. Len(s) - i
      <3>2. h[j] = f[i + j] - f[i] /\ h[j - 1] = f[(i + j) - 1] - f[i]
        BY <3>1
      <3>3. Sizes(t)[j] = z[i + j]
        BY ONLY <1>3, <2>2, <2>3, <3>1, j \in 1 .. Len(s) - i
      <3>4. f[i + j] = f[(i + j) - 1] + z[i + j] /\ z[i + j] \in Nat /\ f[(i + j) - 1] \in Nat /\ f[i] \in Nat
        BY ONLY <1>3, <1>5, <3>1
      <3> QED
        BY ONLY <3>2, <3>3, <3>4
    <2>6. h[Len(s) - i] = f[Len(s)] - f[i]
      <3>1. Len(s) - i \in 0 .. Len(s) - i /\ i + (Len(s) - i) = Len(s)
        BY ONLY <1>1
      <3> QED
        BY <3>1
    <2> HIDE DEF h
    <2>7. Sums(Sizes(t), h)
      BY ONLY <2>3, <2>4, <2>5 DEF Sums
    <2>8. Total(Sizes(t)) = h[Len(s) - i]
      BY <2>3, <2>7, TotalIs
    <2> QED
      BY <2>1, <2>3, <2>6, <2>8
  <1> QED
    BY <1>6, <1>7, <1>8

\* The last messages of the last messages.
LEMMA SubOfSub ==
  ASSUME NEW M, NEW s \in Seq(M), NEW a \in Nat, NEW b \in Nat, a + b <= Len(s),
         NEW t, t = SubSeq(s, a + 1, Len(s))
  PROVE  SubSeq(t, b + 1, Len(t)) = SubSeq(s, a + b + 1, Len(s))
  <1>1. Len(s) \in Nat /\ a <= Len(s) /\ a + b \in Nat /\ Len(s) <= Len(s) /\ Len(s) - a \in Nat /\ b <= Len(s) - a
    OBVIOUS
  <1>2. t \in Seq(M) /\ Len(t) = Len(s) - a /\ \A j \in 1 .. Len(s) - a : t[j] = s[a + j]
    <2>1. PICK u : u = SubSeq(s, a + 1, Len(s))
      OBVIOUS
    <2>2. u \in Seq(M) /\ Len(u) = Len(s) - a /\ \A j \in 1 .. Len(s) - a : u[j] = s[a + j]
      BY ONLY <1>1, <2>1, EndFacts, s \in Seq(M), a \in Nat
    <2>3. t = u
      BY ONLY <2>1, t = SubSeq(s, a + 1, Len(s))
    <2> QED
      BY ONLY <2>2, <2>3
  <1>3. PICK u : u = SubSeq(t, b + 1, Len(t))
    OBVIOUS
  <1>4. u \in Seq(M) /\ Len(u) = Len(t) - b /\ \A j \in 1 .. Len(t) - b : u[j] = t[b + j]
    <2>1. Len(t) \in Nat /\ b <= Len(t) /\ Len(t) <= Len(t)
      BY ONLY <1>1, <1>2
    <2> QED
      BY ONLY <1>2, <1>3, <2>1, EndFacts, b \in Nat
  <1>5. PICK v : v = SubSeq(s, (a + b) + 1, Len(s))
    OBVIOUS
  <1>6. v \in Seq(M) /\ Len(v) = Len(s) - (a + b) /\ \A j \in 1 .. Len(s) - (a + b) : v[j] = s[(a + b) + j]
    BY ONLY <1>1, <1>5, EndFacts, s \in Seq(M), a + b <= Len(s)
  <1>7. Len(u) = Len(v) /\ Len(u) \in Nat
    BY ONLY <1>1, <1>2, <1>4, <1>6, a \in Nat, b \in Nat
  <1>8. ASSUME NEW j \in 1 .. Len(u) PROVE u[j] = v[j]
    <2>1. /\ j \in 1 .. Len(t) - b /\ b + j \in 1 .. Len(s) - a /\ j \in 1 .. Len(s) - (a + b)
          /\ a + (b + j) = (a + b) + j
      BY ONLY <1>1, <1>2, <1>4, <1>6, <1>7, j \in 1 .. Len(u), a \in Nat, b \in Nat
    <2> QED
      BY ONLY <1>2, <1>4, <1>6, <2>1
  <1>9. u = v
    <2>1. u \in Seq(M) /\ v \in Seq(M)
      BY ONLY <1>4, <1>6
    <2> QED
      BY ONLY <1>7, <1>8, <2>1
  <1> QED
    BY ONLY <1>3, <1>5, <1>9

\* The window compressor keeps the longest end of the history that fits.
Fits(s, n) ==
  n <= WindowMessages /\ (n = 1 \/ Count(SubSeq(s, Len(s) - n + 1, Len(s))) <= WindowTokens)

LEMMA WindowLongest ==
  ASSUME NEW M, \A x \in M : Size(x) \in Nat, NEW s \in Seq(M), s # <<>>, NEW w, w = Window(s)
  PROVE  /\ w \in Seq(M) /\ w = SubSeq(s, Len(s) - Len(w) + 1, Len(s))
         /\ Fits(s, Len(w)) /\ \A n \in Len(w) + 1 .. Len(s) : ~ Fits(s, n)
  <1>1. Len(s) \in Nat /\ Len(s) > 0 /\ WindowMessages \in Nat /\ WindowMessages > 0 /\ WindowTokens \in Nat
    BY TranscriptAssumption
  <1>2. PICK a : a = IF Len(s) > WindowMessages THEN Len(s) - WindowMessages ELSE 0
    OBVIOUS
  <1>a. a \in Nat
    BY ONLY <1>1, <1>2
  <1>3. PICK recent : recent = SubSeq(s, a + 1, Len(s))
    OBVIOUS
  <1>4. /\ recent \in Seq(M) /\ Len(recent) = Len(s) - a /\ Len(recent) > 0
        /\ Len(recent) <= WindowMessages /\ Len(recent) \in Nat /\ a <= Len(s)
    <2>1. a <= Len(s) /\ Len(s) <= Len(s) /\ Len(s) - a > 0 /\ Len(s) - a <= WindowMessages /\ Len(s) - a \in Nat
      BY ONLY <1>1, <1>2
    <2>2. recent \in Seq(M) /\ Len(recent) = Len(s) - a
      BY ONLY <1>1, <1>a, <1>3, <2>1, EndFacts, s \in Seq(M)
    <2> QED
      BY ONLY <2>1, <2>2
  <1>5. recent = IF Len(s) > WindowMessages
                 THEN SubSeq(s, Len(s) - WindowMessages + 1, Len(s)) ELSE s
    <2>1. CASE Len(s) > WindowMessages
      BY ONLY <1>2, <1>3, <2>1
    <2>2. CASE ~ (Len(s) > WindowMessages)
      <3>1. SubSeq(s, 1, Len(s)) = s
        OBVIOUS
      <3>2. a + 1 = 1
        BY ONLY <1>2, <2>2
      <3> QED
        BY ONLY <1>3, <2>2, <3>1, <3>2
    <2> QED
      BY ONLY <2>1, <2>2
  <1>6. w = DropOldest(recent)
    BY ONLY <1>5, w = Window(s), Zenon DEF Window
  <1> DEFINE Goes(i) == /\ Len(recent) - i > 1
                        /\ Count(recent) - Count(SubSeq(recent, 1, i)) > WindowTokens
             Stops(i) == ~ Goes(i) /\ \A j \in 0 .. i - 1 : Goes(j)
  <1>7. PICK d \in 0 .. Len(recent) : Stops(d) /\ w = SubSeq(recent, d + 1, Len(recent))
    <2>1. \E i \in 0 .. Len(recent) : Stops(i)
      <3> DEFINE T == {i \in Nat : ~ Goes(i)}
      <3>1. Len(recent) - 1 \in T
        BY ONLY <1>4
      <3>2. PICK i \in T : \A j \in T : i <= j
        <4>1. T \subseteq Nat
          OBVIOUS
        <4> HIDE DEF T
        <4> QED
          BY ONLY <3>1, <4>1, LeastNumber
      <3>3. i \in Nat /\ ~ Goes(i)
        BY ONLY <3>2
      <3>4. i <= Len(recent) - 1
        <4> HIDE DEF T
        <4> QED
          BY ONLY <3>1, <3>2
      <3>5. ASSUME NEW j \in 0 .. i - 1 PROVE Goes(j)
        <4>1. j \in Nat /\ ~ (i <= j)
          BY ONLY <3>3, j \in 0 .. i - 1
        <4>2. j \notin T
          <5> HIDE DEF T
          <5> QED
            BY ONLY <3>2, <4>1
        <4> HIDE DEF Goes
        <4> QED
          BY ONLY <4>1, <4>2
      <3>6. i \in 0 .. Len(recent)
        BY ONLY <1>4, <3>3, <3>4
      <3> HIDE DEF Goes
      <3> QED
        BY ONLY <3>3, <3>5, <3>6
    <2>2. w = SubSeq(recent, (CHOOSE i \in 0 .. Len(recent) : Stops(i)) + 1, Len(recent))
      BY ONLY <1>6, Zenon DEF DropOldest
    <2> HIDE DEF Stops
    <2> QED
      BY ONLY <2>1, <2>2
  <1>8. ASSUME NEW i \in 0 .. Len(recent)
        PROVE  Goes(i) <=> /\ Len(recent) - i > 1
                           /\ Count(SubSeq(s, Len(s) - (Len(recent) - i) + 1, Len(s))) > WindowTokens
    <2>1. Count(recent) - Count(SubSeq(recent, 1, i)) = Count(SubSeq(recent, i + 1, Len(recent)))
      BY ONLY <1>4, CountRest, i \in 0 .. Len(recent), \A x \in M : Size(x) \in Nat
    <2>2. SubSeq(recent, i + 1, Len(recent)) = SubSeq(s, a + i + 1, Len(s))
      <3>1. i \in Nat /\ a + i <= Len(s)
        BY ONLY <1>1, <1>a, <1>4, i \in 0 .. Len(recent)
      <3> QED
        BY ONLY <1>a, <1>3, <3>1, SubOfSub, s \in Seq(M)
    <2>3. a + i + 1 = Len(s) - (Len(recent) - i) + 1
      BY ONLY <1>1, <1>a, <1>4, i \in 0 .. Len(recent)
    <2> QED
      BY ONLY <2>1, <2>2, <2>3
  <1>9. d <= Len(recent) - 1 /\ d \in Nat
    <2>1. ~ (d > Len(recent) - 1)
      <3> SUFFICES ASSUME d > Len(recent) - 1 PROVE FALSE
        OBVIOUS
      <3>1. Len(recent) - 1 \in 0 .. d - 1
        BY ONLY <1>4, d \in 0 .. Len(recent), d > Len(recent) - 1
      <3>2. Goes(Len(recent) - 1)
        <4> HIDE DEF Goes
        <4> QED
          BY ONLY <1>7, <3>1
      <3> QED
        BY ONLY <1>4, <3>2
    <2> QED
      BY ONLY <1>4, <2>1, d \in 0 .. Len(recent)
  <1>10. w \in Seq(M) /\ Len(w) = Len(recent) - d /\ Len(w) \in Nat
    <2>1. d <= Len(recent) /\ Len(recent) <= Len(recent) /\ Len(recent) - d \in Nat
      BY ONLY <1>4, <1>9
    <2>2. w = SubSeq(recent, d + 1, Len(recent))
      BY <1>7
    <2>3. w \in Seq(M) /\ Len(w) = Len(recent) - d
      BY ONLY <1>4, <1>9, <2>1, <2>2, EndFacts
    <2> QED
      BY ONLY <2>1, <2>3
  <1>11. w = SubSeq(s, Len(s) - Len(w) + 1, Len(s))
    <2>1. a + d <= Len(s) /\ a + d + 1 = Len(s) - Len(w) + 1
      BY ONLY <1>1, <1>a, <1>4, <1>9, <1>10
    <2>2. SubSeq(recent, d + 1, Len(recent)) = SubSeq(s, a + d + 1, Len(s))
      BY ONLY <1>a, <1>3, <1>9, <2>1, SubOfSub, s \in Seq(M)
    <2>3. w = SubSeq(recent, d + 1, Len(recent))
      BY <1>7
    <2> QED
      BY ONLY <2>1, <2>2, <2>3
  <1>12. \A n \in Nat : Count(SubSeq(s, Len(s) - n + 1, Len(s))) \in Nat \/ n > Len(s)
    <2> SUFFICES ASSUME NEW n \in Nat, ~ (n > Len(s))
                 PROVE  Count(SubSeq(s, Len(s) - n + 1, Len(s))) \in Nat
      OBVIOUS
    <2>1. Len(s) - n \in Nat /\ Len(s) - n <= Len(s) /\ Len(s) <= Len(s)
      BY ONLY <1>1, n \in Nat, ~ (n > Len(s))
    <2>2. SubSeq(s, (Len(s) - n) + 1, Len(s)) \in Seq(M)
      BY ONLY <1>1, <2>1, EndFacts, s \in Seq(M)
    <2> QED
      BY ONLY <2>2, SizesFacts, \A x \in M : Size(x) \in Nat
  <1> DEFINE c(n) == Count(SubSeq(s, Len(s) - n + 1, Len(s)))
  <1>13. Fits(s, Len(w))
    <2>1. ~ (Len(w) > 1 /\ c(Len(w)) > WindowTokens)
      <3>1. ~ Goes(d)
        BY <1>7
      <3> HIDE DEF Goes
      <3> QED
        BY ONLY <1>8, <1>10, <3>1, d \in 0 .. Len(recent)
    <2>2. Len(w) = 1 \/ Len(w) > 1
      BY ONLY <1>4, <1>9, <1>10
    <2>3. Len(w) <= WindowMessages /\ Len(w) <= Len(s)
      BY ONLY <1>1, <1>a, <1>4, <1>9, <1>10
    <2>4. c(Len(w)) \in Nat
      <3>1. Len(w) \in Nat /\ ~ (Len(w) > Len(s))
        BY ONLY <1>1, <1>10, <2>3
      <3> QED
        BY ONLY <1>12, <3>1, Zenon
    <2> HIDE DEF c
    <2>5. Len(w) = 1 \/ c(Len(w)) <= WindowTokens
      BY ONLY <1>1, <2>1, <2>2, <2>4
    <2> USE DEF c
    <2> QED
      BY ONLY <2>3, <2>5 DEF Fits
  <1>14. ASSUME NEW n \in Len(w) + 1 .. Len(s), Fits(s, n) PROVE FALSE
    <2>1. n <= WindowMessages /\ (n = 1 \/ c(n) <= WindowTokens)
      BY ONLY <1>14 DEF Fits
    <2>2. n \in Nat /\ n <= Len(s) /\ n > Len(w)
      BY ONLY <1>1, <1>10, n \in Len(w) + 1 .. Len(s)
    <2>3. n <= Len(recent)
      BY ONLY <1>1, <1>2, <1>a, <1>4, <2>1, <2>2
    <2>4. Len(recent) - n \in 0 .. d - 1 /\ Len(recent) - n \in 0 .. Len(recent) /\ Len(recent) - (Len(recent) - n) = n
      BY ONLY <1>4, <1>9, <1>10, <2>2, <2>3
    <2>5. Goes(Len(recent) - n)
      <3> HIDE DEF Goes
      <3> QED
        BY ONLY <1>7, <2>4
    <2>6. n > 1 /\ c(n) > WindowTokens
      <3> HIDE DEF Goes
      <3> QED
        BY ONLY <1>8, <2>4, <2>5
    <2>7. c(n) \in Nat
      BY ONLY <1>1, <1>12, <2>2
    <2> HIDE DEF c
    <2> QED
      BY ONLY <1>1, <2>1, <2>2, <2>6, <2>7
  <1> QED
    BY <1>10, <1>11, <1>13, <1>14

(***************************************************************************)
(* Requests.                                                               *)
(***************************************************************************)
\* Where the results for an item of a request are.
Following(request, i) ==
  {k \in i + 1 .. Len(request) : \A j \in i + 1 .. k : request[j].results # {}}

\* One item is right.
PairedAt(request, i) ==
  /\ request[i].calls =
       UNION {request[k].results : k \in IF request[i].calls = {} THEN {} ELSE Following(request, i)}
  /\ request[i].results # {} => i > 1 /\ (request[i - 1].calls # {} \/ request[i - 1].results # {})

LEMMA PairedIs ==
  ASSUME NEW request
  PROVE  Paired(request) <=> \A i \in DOMAIN request : PairedAt(request, i)
  BY Zenon DEF Paired, PairedAt, Following

\* The items of a message come after those of the messages before it.
LEMMA PairedConcat ==
  ASSUME NEW S, NEW a \in Seq(S), NEW g \in Seq(S), Paired(a), Paired(g), g # <<>>, g[1].results = {},
         NEW p, p = a \o g
  PROVE  Paired(p)
  <1>1. /\ Len(a) \in Nat /\ Len(g) \in Nat /\ Len(g) > 0 /\ p \in Seq(S) /\ Len(p) = Len(a) + Len(g)
        /\ \A i \in 1 .. Len(a) : p[i] = a[i]
        /\ \A i \in 1 .. Len(g) : p[Len(a) + i] = g[i]
    OBVIOUS
  <1>2. \A i \in 1 .. Len(a) : PairedAt(a, i)
    <2>1. DOMAIN a = 1 .. Len(a)
      OBVIOUS
    <2> QED
      BY <2>1, PairedIs
  <1>3. \A i \in 1 .. Len(g) : PairedAt(g, i)
    <2>1. DOMAIN g = 1 .. Len(g)
      OBVIOUS
    <2> QED
      BY <2>1, PairedIs
  <1>4. p[Len(a) + 1].results = {} /\ Len(a) + 1 \in 1 .. Len(p)
    BY ONLY <1>1, g[1].results = {}
  <1>5. ASSUME NEW i \in 1 .. Len(a) PROVE PairedAt(p, i)
    <2>1. p[i] = a[i] /\ (i > 1 => p[i - 1] = a[i - 1])
      BY ONLY <1>1, i \in 1 .. Len(a)
    <2>2. Following(p, i) = Following(a, i)
      <3>1. ASSUME NEW k \in Following(p, i) PROVE k \in Following(a, i)
        <4>1. k \in i + 1 .. Len(p) /\ \A j \in i + 1 .. k : p[j].results # {}
          BY ONLY k \in Following(p, i) DEF Following
        <4>2. k <= Len(a) /\ k \in Nat
          <5>1. Len(a) + 1 \notin i + 1 .. k
            BY ONLY <1>4, <4>1
          <5> QED
            BY ONLY <1>1, <4>1, <5>1, i \in 1 .. Len(a)
        <4>3. k \in i + 1 .. Len(a) /\ \A j \in i + 1 .. k : j \in 1 .. Len(a)
          BY ONLY <1>1, <4>1, <4>2, i \in 1 .. Len(a)
        <4>4. \A j \in i + 1 .. k : a[j].results # {}
          BY ONLY <1>1, <4>1, <4>3
        <4> QED
          BY ONLY <4>3, <4>4 DEF Following
      <3>2. ASSUME NEW k \in Following(a, i) PROVE k \in Following(p, i)
        <4>1. k \in i + 1 .. Len(a) /\ \A j \in i + 1 .. k : a[j].results # {}
          BY ONLY k \in Following(a, i) DEF Following
        <4>2. k \in i + 1 .. Len(p) /\ \A j \in i + 1 .. k : j \in 1 .. Len(a)
          BY ONLY <1>1, <4>1, i \in 1 .. Len(a)
        <4>3. \A j \in i + 1 .. k : p[j].results # {}
          BY ONLY <1>1, <4>1, <4>2
        <4> QED
          BY ONLY <4>2, <4>3 DEF Following
      <3> QED
        BY ONLY <3>1, <3>2
    <2>3. \A k \in Following(a, i) : p[k] = a[k]
      <3>1. \A k \in Following(a, i) : k \in 1 .. Len(a)
        BY ONLY <1>1, i \in 1 .. Len(a) DEF Following
      <3> QED
        BY ONLY <1>1, <3>1
    <2>4. {p[k].results : k \in IF p[i].calls = {} THEN {} ELSE Following(p, i)}
            = {a[k].results : k \in IF a[i].calls = {} THEN {} ELSE Following(a, i)}
      <3>1. CASE a[i].calls = {}
        BY ONLY <2>1, <3>1
      <3>2. CASE a[i].calls # {}
        <4>1. {p[k].results : k \in Following(a, i)} = {a[k].results : k \in Following(a, i)}
          BY ONLY <2>3
        <4> QED
          BY ONLY <2>1, <2>2, <3>2, <4>1
      <3> QED
        BY ONLY <3>1, <3>2
    <2>5. PairedAt(a, i)
      BY <1>2
    <2> QED
      BY ONLY <2>1, <2>4, <2>5 DEF PairedAt
  <1>6. ASSUME NEW m \in 1 .. Len(g), NEW i, i = Len(a) + m PROVE PairedAt(p, i)
    <2>0. i \in 1 .. Len(p) /\ m \in Nat /\ i \in Nat
      BY ONLY <1>1, m \in 1 .. Len(g), i = Len(a) + m
    <2>1. p[i] = g[m] /\ (m > 1 => p[i - 1] = g[m - 1])
      <3>1. p[i] = g[m]
        BY ONLY <1>1, m \in 1 .. Len(g), i = Len(a) + m
      <3>2. ASSUME m > 1 PROVE p[i - 1] = g[m - 1]
        <4>1. m - 1 \in 1 .. Len(g) /\ Len(a) + (m - 1) = i - 1
          BY ONLY <1>1, <2>0, <3>2, m \in 1 .. Len(g), i = Len(a) + m
        <4> QED
          BY ONLY <1>1, <4>1
      <3> QED
        BY ONLY <3>1, <3>2
    <2>2. ASSUME NEW k PROVE k \in Following(p, i) <=> \E n \in Following(g, m) : k = Len(a) + n
      <3>1. ASSUME k \in Following(p, i) PROVE \E n \in Following(g, m) : k = Len(a) + n
        <4>1. k \in i + 1 .. Len(p) /\ \A j \in i + 1 .. k : p[j].results # {}
          BY ONLY <3>1 DEF Following
        <4>2. PICK n : n = k - Len(a)
          OBVIOUS
        <4>3. n \in m + 1 .. Len(g) /\ k = Len(a) + n /\ n \in Nat /\ k \in Nat
          BY ONLY <1>1, <2>0, <4>1, <4>2, i = Len(a) + m
        <4>4. ASSUME NEW j \in m + 1 .. n PROVE g[j].results # {}
          <5>1. Len(a) + j \in i + 1 .. k /\ j \in 1 .. Len(g)
            BY ONLY <1>1, <2>0, <4>3, i = Len(a) + m, j \in m + 1 .. n
          <5> QED
            BY ONLY <1>1, <4>1, <5>1
        <4>5. n \in Following(g, m)
          BY ONLY <4>3, <4>4 DEF Following
        <4> QED
          BY ONLY <4>3, <4>5
      <3>2. ASSUME NEW n \in Following(g, m), k = Len(a) + n PROVE k \in Following(p, i)
        <4>1. n \in m + 1 .. Len(g) /\ \A j \in m + 1 .. n : g[j].results # {}
          BY ONLY n \in Following(g, m) DEF Following
        <4>2. k \in i + 1 .. Len(p) /\ n \in Nat /\ k \in Nat
          BY ONLY <1>1, <2>0, <3>2, <4>1, i = Len(a) + m
        <4>3. ASSUME NEW j \in i + 1 .. k PROVE p[j].results # {}
          <5>1. PICK h : h = j - Len(a)
            OBVIOUS
          <5>2. h \in m + 1 .. n /\ h \in 1 .. Len(g) /\ j = Len(a) + h
            BY ONLY <1>1, <2>0, <3>2, <4>1, <4>2, <5>1, i = Len(a) + m, j \in i + 1 .. k
          <5> QED
            BY ONLY <1>1, <4>1, <5>2
        <4> QED
          BY ONLY <4>2, <4>3 DEF Following
      <3> QED
        BY ONLY <3>1, <3>2
    <2>3. \A n \in Following(g, m) : p[Len(a) + n] = g[n]
      <3>1. \A n \in Following(g, m) : n \in 1 .. Len(g)
        BY ONLY <1>1, <2>0 DEF Following
      <3> QED
        BY ONLY <1>1, <3>1
    <2>4. {p[k].results : k \in IF p[i].calls = {} THEN {} ELSE Following(p, i)}
            = {g[k].results : k \in IF g[m].calls = {} THEN {} ELSE Following(g, m)}
      <3>1. CASE g[m].calls = {}
        BY ONLY <2>1, <3>1
      <3>2. CASE g[m].calls # {}
        <4>1. {p[k].results : k \in Following(p, i)} = {g[n].results : n \in Following(g, m)}
          <5>1. ASSUME NEW k \in Following(p, i) PROVE \E n \in Following(g, m) : p[k].results = g[n].results
            BY ONLY <2>2, <2>3, k \in Following(p, i)
          <5>2. ASSUME NEW n \in Following(g, m) PROVE \E k \in Following(p, i) : p[k].results = g[n].results
            BY ONLY <2>2, <2>3, n \in Following(g, m)
          <5> QED
            BY ONLY <5>1, <5>2
        <4> QED
          BY ONLY <2>1, <3>2, <4>1
      <3> QED
        BY ONLY <3>1, <3>2
    <2>5. PairedAt(g, m)
      BY <1>3
    <2>6. m > 1 => i > 1
      BY ONLY <1>1, <2>0, i = Len(a) + m
    <2> QED
      BY ONLY <2>1, <2>4, <2>5, <2>6 DEF PairedAt
  <1>7. ASSUME NEW i \in DOMAIN p PROVE PairedAt(p, i)
    <2>1. i \in 1 .. Len(p)
      BY ONLY <1>1, i \in DOMAIN p
    <2>2. CASE i <= Len(a)
      <3>1. i \in 1 .. Len(a)
        BY ONLY <1>1, <2>1, <2>2
      <3> QED
        BY ONLY <1>5, <3>1
    <2>3. CASE ~ (i <= Len(a))
      <3>1. i - Len(a) \in 1 .. Len(g) /\ i = Len(a) + (i - Len(a))
        BY ONLY <1>1, <2>1, <2>3
      <3> QED
        BY ONLY <1>6, <3>1
    <2> QED
      BY ONLY <2>2, <2>3
  <1> QED
    BY <1>7, PairedIs

\* The concatenation of the first of some sequences.
Joins(ss, n, f) == \A i \in 1 .. n : f[i] = IF i = 1 THEN ss[i] ELSE f[i - 1] \o ss[i]

LEMMA JoinsExist ==
  ASSUME NEW S, NEW ss \in Seq(Seq(S))
  PROVE  \E f : f = [i \in 1 .. Len(ss) |-> IF i = 1 THEN ss[i] ELSE f[i - 1] \o ss[i]]
  <1>1. Len(ss) \in Nat /\ \A i \in 1 .. Len(ss) : ss[i] \in Seq(S)
    OBVIOUS
  <1> DEFINE P == {n \in Nat : n <= Len(ss) => \E f \in [1 .. n -> Seq(S)] : Joins(ss, n, f)}
  <1>2. 0 \in P
    <2>1. [i \in 1 .. 0 |-> <<>>] \in [1 .. 0 -> Seq(S)] /\ Joins(ss, 0, [i \in 1 .. 0 |-> <<>>])
      BY DEF Joins
    <2> QED
      BY <2>1
  <1>3. ASSUME NEW x \in 1 .. Len(ss), x - 1 \in P PROVE x \in P
    <2>1. x \in Nat /\ x - 1 \in Nat /\ x - 1 <= Len(ss) /\ ss[x] \in Seq(S)
      BY <1>1
    <2>2. PICK f \in [1 .. x - 1 -> Seq(S)] : Joins(ss, x - 1, f)
      BY <1>3, <2>1
    <2>3. PICK next : next = IF x = 1 THEN ss[x] ELSE f[x - 1] \o ss[x]
      OBVIOUS
    <2>4. next \in Seq(S)
      <3>1. CASE x = 1
        BY <2>1, <2>3, <3>1
      <3>2. CASE x # 1
        <4>1. f[x - 1] \in Seq(S)
          BY <2>1, <3>2
        <4> QED
          BY ONLY <2>1, <2>3, <3>2, <4>1
      <3> QED
        BY <3>1, <3>2
    <2> DEFINE g == [i \in 1 .. x |-> IF i = x THEN next ELSE f[i]]
    <2>5. g \in [1 .. x -> Seq(S)]
      <3>1. ASSUME NEW i \in 1 .. x PROVE (IF i = x THEN next ELSE f[i]) \in Seq(S)
        BY <2>1, <2>4
      <3> QED
        BY <3>1
    <2>6. Joins(ss, x, g)
      <3>1. ASSUME NEW i \in 1 .. x PROVE g[i] = IF i = 1 THEN ss[i] ELSE g[i - 1] \o ss[i]
        <4>1. i # 1 => i - 1 \in 1 .. x /\ i - 1 # x
          BY <2>1
        <4>2. i # 1 => g[i - 1] = f[i - 1]
          BY <4>1
        <4>3. CASE i = x
          BY ONLY <2>3, <4>2, <4>3, i \in 1 .. x
        <4>4. CASE i # x
          <5>1. i \in 1 .. x - 1
            BY <2>1, <4>4
          <5>2. f[i] = IF i = 1 THEN ss[i] ELSE f[i - 1] \o ss[i]
            BY <2>2, <5>1 DEF Joins
          <5> QED
            BY ONLY <4>2, <4>4, <5>2, i \in 1 .. x
        <4> QED
          BY <4>3, <4>4
      <3> HIDE DEF g
      <3> QED
        BY ONLY <3>1 DEF Joins
    <2> HIDE DEF g
    <2> QED
      BY <2>1, <2>5, <2>6
  <1>4. Len(ss) \in P
    <2> HIDE DEF P
    <2> QED
      BY <1>1, <1>2, <1>3, FirstMissing
  <1>5. PICK f \in [1 .. Len(ss) -> Seq(S)] : Joins(ss, Len(ss), f)
    BY <1>1, <1>4
  <1>6. f = [i \in 1 .. Len(ss) |-> IF i = 1 THEN ss[i] ELSE f[i - 1] \o ss[i]]
    BY <1>5 DEF Joins
  <1> QED
    BY <1>6

\* The items of messages that are paired up each.
Group(S, g) == g \in Seq(S) /\ g # <<>> /\ g[1].results = {} /\ Paired(g)

LEMMA FlattenPaired ==
  ASSUME NEW S, NEW ss \in Seq(Seq(S)), \A i \in 1 .. Len(ss) : Group(S, ss[i])
  PROVE  Paired(FlattenSeq(ss))
  <1>1. Len(ss) \in Nat
    OBVIOUS
  <1>2. CASE Len(ss) = 0
    <2>1. FlattenSeq(ss) = ss
      BY <1>2 DEF FlattenSeq
    <2>2. DOMAIN ss = {}
      BY <1>2
    <2> QED
      BY ONLY <2>1, <2>2, PairedIs
  <1>3. CASE Len(ss) # 0
    <2> DEFINE Flattens(f) == f = [i \in 1 .. Len(ss) |-> IF i = 1 THEN ss[i] ELSE f[i - 1] \o ss[i]]
    <2>1. FlattenSeq(ss) = (CHOOSE f : Flattens(f))[Len(ss)]
      BY <1>3, Zenon DEF FlattenSeq
    <2>2. PICK h : h = (CHOOSE f : Flattens(f))
      OBVIOUS
    <2>3. Flattens(h)
      <3>1. \E f : Flattens(f)
        BY JoinsExist
      <3> HIDE DEF Flattens
      <3> QED
        BY <2>2, <3>1
    <2>4. Joins(ss, Len(ss), h)
      BY ONLY <2>3 DEF Joins
    <2> DEFINE P == {n \in Nat : n # 0 /\ n <= Len(ss) => h[n] \in Seq(S) /\ Paired(h[n])}
    <2>5. 0 \in P
      OBVIOUS
    <2>6. ASSUME NEW x \in 1 .. Len(ss), x - 1 \in P PROVE x \in P
      <3>1. x \in Nat /\ x - 1 \in Nat /\ x - 1 <= Len(ss)
        BY <1>1
      <3>2. Group(S, ss[x])
        OBVIOUS
      <3>3. h[x] = IF x = 1 THEN ss[x] ELSE h[x - 1] \o ss[x]
        BY ONLY <2>4, x \in 1 .. Len(ss) DEF Joins
      <3>4. CASE x = 1
        BY ONLY <3>1, <3>2, <3>3, <3>4 DEF Group
      <3>5. CASE x # 1
        <4>1. h[x - 1] \in Seq(S) /\ Paired(h[x - 1])
          <5>1. x - 1 # 0
            BY ONLY <3>1, <3>5
          <5> QED
            BY ONLY <2>6, <3>1, <5>1
        <4>2. h[x] = h[x - 1] \o ss[x]
          BY ONLY <3>3, <3>5
        <4>3. ss[x] \in Seq(S) /\ ss[x] # <<>> /\ ss[x][1].results = {} /\ Paired(ss[x])
          BY ONLY <3>2 DEF Group
        <4>4. Paired(h[x])
          BY ONLY <4>1, <4>2, <4>3, PairedConcat
        <4>5. h[x] \in Seq(S)
          BY ONLY <4>1, <4>2, <4>3
        <4> QED
          BY ONLY <3>1, <4>4, <4>5
      <3> QED
        BY ONLY <3>4, <3>5
    <2>7. Len(ss) \in P
      <3> HIDE DEF P
      <3> QED
        BY <1>1, <2>5, <2>6, FirstMissing
    <2> QED
      BY ONLY <1>1, <1>3, <2>1, <2>2, <2>7
  <1> QED
    BY <1>2, <1>3

\* Messages, and the items of requests.
CallIds == Nat \X Nat
Roles == {"user", "assistant", "tool"}
Msgs == {Message(role, text, calls) : role \in Roles, text \in BOOLEAN, calls \in Seq(CallIds)}
Items == {Item(role, calls, results) : role \in Roles, calls \in SUBSET CallIds, results \in SUBSET CallIds}

LEMMA MsgFacts ==
  ASSUME NEW m \in Msgs
  PROVE  m.role \in Roles /\ m.calls \in Seq(CallIds) /\ Size(m) \in Nat
  <1>1. PICK role \in Roles, text \in BOOLEAN, calls \in Seq(CallIds) : m = Message(role, text, calls)
    BY DEF Msgs
  <1>2. m.role = role /\ m.calls = calls
    BY ONLY <1>1 DEF Message
  <1>3. Len(m.calls) \in Nat
    BY <1>2
  <1> QED
    BY <1>2, <1>3 DEF Size

LEMMA MsgIn ==
  ASSUME NEW role \in Roles, NEW text \in BOOLEAN, NEW calls \in Seq(CallIds)
  PROVE  Message(role, text, calls) \in Msgs
  BY DEF Msgs

LEMMA ItemFacts ==
  ASSUME NEW role, NEW calls, NEW results
  PROVE  Item(role, calls, results).calls = calls /\ Item(role, calls, results).results = results
  BY DEF Item

LEMMA ItemIn ==
  ASSUME NEW role \in Roles, NEW calls \in SUBSET CallIds, NEW results \in SUBSET CallIds
  PROVE  Item(role, calls, results) \in Items
  BY DEF Items

\* A message that has no call is one item.
LEMMA PlainGroup ==
  ASSUME NEW role \in Roles
  PROVE  Group(Items, <<Item(role, {}, {})>>)
  <1>1. PICK x : x = Item(role, {}, {})
    OBVIOUS
  <1>2. x \in Items /\ x.calls = {} /\ x.results = {}
    <2>1. {} \in SUBSET CallIds
      OBVIOUS
    <2> QED
      BY ONLY <1>1, <2>1, role \in Roles, ItemIn, ItemFacts
  <1>3. PICK g : g = <<x>>
    OBVIOUS
  <1>4. g \in Seq(Items) /\ g # <<>> /\ DOMAIN g = {1} /\ g[1] = x
    BY ONLY <1>2, <1>3
  <1>5. PairedAt(g, 1)
    BY ONLY <1>2, <1>4 DEF PairedAt
  <1>6. Paired(g)
    BY ONLY <1>4, <1>5, PairedIs
  <1> QED
    BY ONLY <1>1, <1>2, <1>3, <1>4, <1>6 DEF Group

\* A message with calls, as Anthropic is sent it.
LEMMA ClaudeGroup ==
  ASSUME NEW m \in Msgs
  PROVE  Group(Items, toClaude(m))
  <1>1. m.role \in Roles /\ m.calls \in Seq(CallIds)
    BY MsgFacts
  <1>2. CASE m.role # "tool"
    <2>1. toClaude(m) = <<Item(m.role, {}, {})>>
      BY ONLY <1>2, Zenon DEF toClaude
    <2> QED
      BY ONLY <1>1, <2>1, PlainGroup
  <1>3. CASE m.role = "tool"
    <2>1. PICK c : c = Range(m.calls)
      OBVIOUS
    <2>2. c \in SUBSET CallIds /\ {} \in SUBSET CallIds
      BY <1>1, <2>1 DEF Range
    <2>3. PICK x, y : x = Item("assistant", c, {}) /\ y = Item("user", {}, c)
      OBVIOUS
    <2>4. "assistant" \in Roles /\ "user" \in Roles
      BY ONLY Zenon DEF Roles
    <2>5. x \in Items /\ y \in Items
      BY ONLY <2>2, <2>3, <2>4, ItemIn
    <2>6. x.calls = c /\ x.results = {} /\ y.calls = {} /\ y.results = c
      BY ONLY <2>3, ItemFacts
    <2>7. PICK g : g = <<x, y>>
      OBVIOUS
    <2>8. g = toClaude(m)
      BY ONLY <1>3, <2>1, <2>3, <2>7, Zenon DEF toClaude
    <2>9. g \in Seq(Items) /\ g # <<>> /\ Len(g) = 2 /\ DOMAIN g = {1, 2} /\ g[1] = x /\ g[2] = y
      BY ONLY <2>5, <2>7
    <2>10. c # {} => Following(g, 1) = {2}
      BY ONLY <2>6, <2>9 DEF Following
    <2>11. PairedAt(g, 1)
      <3>1. UNION {g[k].results : k \in IF c = {} THEN {} ELSE Following(g, 1)} = c
        <4>1. CASE c = {}
          BY ONLY <4>1
        <4>2. CASE c # {}
          <5>1. {g[k].results : k \in Following(g, 1)} = {c}
            BY ONLY <2>6, <2>9, <2>10, <4>2
          <5> QED
            BY ONLY <4>2, <5>1
        <4> QED
          BY ONLY <4>1, <4>2
      <3> QED
        BY ONLY <2>6, <2>9, <3>1 DEF PairedAt
    <2>12. PairedAt(g, 2)
      BY ONLY <2>6, <2>9 DEF PairedAt
    <2>13. Paired(g)
      BY ONLY <2>9, <2>11, <2>12, PairedIs
    <2> QED
      BY ONLY <2>6, <2>8, <2>9, <2>13 DEF Group
  <1> QED
    BY <1>2, <1>3

\* And as OpenAI is sent it: a result for each call.
LEMMA OpenAIGroup ==
  ASSUME NEW m \in Msgs
  PROVE  Group(Items, toOpenAI(m))
  <1>1. m.role \in Roles /\ m.calls \in Seq(CallIds)
    BY MsgFacts
  <1>2. CASE m.role # "tool"
    <2>1. toOpenAI(m) = <<Item(m.role, {}, {})>>
      BY ONLY <1>2, Zenon DEF toOpenAI
    <2> QED
      BY ONLY <1>1, <2>1, PlainGroup
  <1>3. CASE m.role = "tool"
    <2>1. PICK c : c = m.calls
      OBVIOUS
    <2>2. /\ c \in Seq(CallIds) /\ Len(c) \in Nat /\ DOMAIN c = 1 .. Len(c)
          /\ \A i \in 1 .. Len(c) : c[i] \in CallIds
      BY ONLY <1>1, <2>1
    <2>3. Range(c) \in SUBSET CallIds /\ {} \in SUBSET CallIds /\ Range(c) = {c[i] : i \in 1 .. Len(c)}
      BY ONLY <2>2 DEF Range
    <2>4. "assistant" \in Roles /\ "tool" \in Roles
      BY ONLY Zenon DEF Roles
    <2>5. PICK x : x = Item("assistant", Range(c), {})
      OBVIOUS
    <2>6. x \in Items /\ x.calls = Range(c) /\ x.results = {}
      BY ONLY <2>3, <2>4, <2>5, ItemIn, ItemFacts
    <2>7. PICK f : f = [i \in DOMAIN c |-> Item("tool", {}, {c[i]})]
      OBVIOUS
    <2>8. /\ f \in Seq(Items) /\ Len(f) = Len(c)
          /\ \A i \in 1 .. Len(c) : f[i].calls = {} /\ f[i].results = {c[i]}
      <3>1. \A i \in 1 .. Len(c) : Item("tool", {}, {c[i]}) \in Items
        <4>1. \A i \in 1 .. Len(c) : {c[i]} \in SUBSET CallIds
          BY ONLY <2>2
        <4> QED
          BY ONLY <2>3, <2>4, <4>1, ItemIn
      <3>2. \A i \in 1 .. Len(c) : f[i] = Item("tool", {}, {c[i]})
        BY ONLY <2>2, <2>7
      <3>3. f \in Seq(Items) /\ Len(f) = Len(c)
        BY ONLY <2>2, <2>7, <3>1
      <3>4. ASSUME NEW i \in 1 .. Len(c) PROVE f[i].calls = {} /\ f[i].results = {c[i]}
        <4>1. f[i] = Item("tool", {}, {c[i]})
          BY ONLY <3>2, i \in 1 .. Len(c), Zenon
        <4> QED
          BY ONLY <4>1 DEF Item
      <3> QED
        BY ONLY <3>3, <3>4
    <2>9. PICK g : g = <<x>> \o f
      OBVIOUS
    <2>10. g = toOpenAI(m)
      BY ONLY <1>3, <2>1, <2>5, <2>7, <2>9, Zenon DEF toOpenAI
    <2>11. g \in Seq(Items) /\ Len(g) = Len(c) + 1 /\ g[1] = x /\ \A i \in 1 .. Len(c) : g[i + 1] = f[i]
      <3>1. <<x>> \in Seq(Items) /\ Len(<<x>>) = 1 /\ <<x>>[1] = x
        BY ONLY <2>6
      <3>2. f \in Seq(Items) /\ Len(f) = Len(c)
        BY ONLY <2>8
      <3> QED
        BY ONLY <2>2, <2>9, <3>1, <3>2
    <2>12. ASSUME NEW i \in 2 .. Len(g)
           PROVE  i - 1 \in 1 .. Len(c) /\ g[i].calls = {} /\ g[i].results = {c[i - 1]}
      <3>1. i - 1 \in 1 .. Len(c) /\ (i - 1) + 1 = i
        BY ONLY <2>2, <2>11, i \in 2 .. Len(g)
      <3> QED
        BY ONLY <2>8, <2>11, <3>1
    <2>13. Following(g, 1) = 2 .. Len(g)
      <3>1. \A j \in 2 .. Len(g) : g[j].results # {}
        BY ONLY <2>12
      <3>2. Len(g) \in Nat /\ 1 + 1 = 2
        BY ONLY <2>2, <2>11
      <3>3. \A k \in 2 .. Len(g) : \A j \in 2 .. k : j \in 2 .. Len(g)
        BY ONLY <3>2
      <3> QED
        BY ONLY <3>1, <3>2, <3>3 DEF Following
    <2>14. PairedAt(g, 1)
      <3>1. UNION {g[k].results : k \in Following(g, 1)} = Range(c)
        <4>1. ASSUME NEW e PROVE e \in UNION {g[k].results : k \in Following(g, 1)} <=> e \in Range(c)
          <5>1. ASSUME e \in UNION {g[k].results : k \in Following(g, 1)} PROVE e \in Range(c)
            <6>1. PICK k \in Following(g, 1) : e \in g[k].results
              BY ONLY <5>1
            <6>2. k - 1 \in 1 .. Len(c) /\ e = c[k - 1]
              BY ONLY <2>12, <2>13, <6>1, k \in Following(g, 1)
            <6> QED
              BY ONLY <2>3, <6>2
          <5>2. ASSUME e \in Range(c) PROVE e \in UNION {g[k].results : k \in Following(g, 1)}
            <6>1. PICK i \in 1 .. Len(c) : e = c[i]
              BY ONLY <2>3, <5>2
            <6>2. i + 1 \in 2 .. Len(g) /\ (i + 1) - 1 = i
              BY ONLY <2>2, <2>11, i \in 1 .. Len(c)
            <6>3. i + 1 \in Following(g, 1) /\ e \in g[i + 1].results
              BY ONLY <2>12, <2>13, <6>1, <6>2
            <6> QED
              BY ONLY <6>3
          <5> QED
            BY ONLY <5>1, <5>2
        <4> QED
          BY ONLY <4>1
      <3>2. UNION {g[k].results : k \in IF Range(c) = {} THEN {} ELSE Following(g, 1)} = Range(c)
        BY ONLY <3>1
      <3> QED
        BY ONLY <2>6, <2>11, <3>2 DEF PairedAt
    <2>15. ASSUME NEW i \in 2 .. Len(g) PROVE PairedAt(g, i)
      <3>1. g[i].calls = {} /\ i > 1 /\ i \in Nat
        BY ONLY <2>11, <2>12, i \in 2 .. Len(g)
      <3>2. g[i - 1].calls # {} \/ g[i - 1].results # {}
        <4>1. CASE i = 2
          <5>1. c[1] \in Range(c)
            <6>1. 1 \in 1 .. Len(c)
              BY ONLY <2>2, <2>11, <4>1, i \in 2 .. Len(g)
            <6> QED
              BY ONLY <2>3, <6>1
          <5>2. i - 1 = 1
            BY ONLY <4>1
          <5> QED
            BY ONLY <2>6, <2>11, <5>1, <5>2
        <4>2. CASE i # 2
          <5>1. i - 1 \in 2 .. Len(g)
            BY ONLY <2>2, <2>11, <4>2, i \in 2 .. Len(g)
          <5>2. g[i - 1].results = {c[(i - 1) - 1]}
            BY ONLY <2>12, <5>1
          <5> QED
            BY ONLY <5>2
        <4> QED
          BY ONLY <4>1, <4>2
      <3> QED
        BY ONLY <3>1, <3>2 DEF PairedAt
    <2>16. Paired(g)
      <3>1. \A i \in DOMAIN g : i = 1 \/ i \in 2 .. Len(g)
        BY ONLY <2>2, <2>11
      <3> QED
        BY ONLY <2>14, <2>15, <3>1, PairedIs
    <2>17. g # <<>>
      BY ONLY <2>2, <2>11
    <2> QED
      BY ONLY <2>6, <2>10, <2>11, <2>16, <2>17 DEF Group
  <1> QED
    BY <1>2, <1>3

\* What OpenAI and Anthropic are sent pairs calls and results up, whatever the
\* messages are.
LEMMA RequestPaired ==
  ASSUME NEW view \in Seq(Msgs), provider \in Providers, provider # "gemini"
  PROVE  Paired(Request(view))
  <1>1. DOMAIN view = 1 .. Len(view) /\ Len(view) \in Nat /\ \A i \in 1 .. Len(view) : view[i] \in Msgs
    OBVIOUS
  <1> DEFINE items(i) == CASE provider = "openai" -> toOpenAI(view[i])
                           [] provider = "claude" -> toClaude(view[i])
                           [] provider = "gemini" -> toGemini(view[i])
             ss == [i \in DOMAIN view |-> items(i)]
  <1>2. ASSUME NEW i \in 1 .. Len(view) PROVE Group(Items, items(i))
    <2>1. Group(Items, toOpenAI(view[i])) /\ Group(Items, toClaude(view[i]))
      BY <1>1, OpenAIGroup, ClaudeGroup
    <2>2. provider = "openai" \/ provider = "claude"
      BY Zenon DEF Providers
    <2> QED
      BY ONLY <2>1, <2>2, Zenon
  <1>3. Request(view) = FlattenSeq(ss)
    BY Zenon DEF Request
  <1> HIDE DEF items
  <1>4. \A i \in 1 .. Len(view) : items(i) \in Seq(Items)
    BY ONLY <1>2 DEF Group
  <1>5. ss \in Seq(Seq(Items)) /\ Len(ss) = Len(view) /\ \A i \in 1 .. Len(ss) : ss[i] = items(i)
    BY ONLY <1>1, <1>4
  <1> HIDE DEF ss
  <1>6. \A i \in 1 .. Len(ss) : Group(Items, ss[i])
    BY ONLY <1>2, <1>5
  <1> QED
    BY ONLY <1>3, <1>5, <1>6, FlattenPaired

(***************************************************************************)
(* The inductive invariant of the compressor.                              *)
(***************************************************************************)
Pcs == {"idle", "offset", "content", "fold", "store", "view"}
Readers == [pc : Pcs, len : Nat, off : Nat, covers : SUBSET Nat]

\* Boundary and WorkingView, of a number and of a log.
Bound(n) == IF n > KeepRecent THEN n - KeepRecent ELSE 0
ViewOf(history, e) ==
  IF e.off = 0 \/ e.covers = {}
  THEN SubSeq(history, 1, e.len)
  ELSE <<Message("assistant", TRUE, <<>>)>> \o SubSeq(history, e.off + 1, e.len)

\* A summary c and an offset o below the boundary b: what the offset passes is
\* covered, and nothing else unless a session with a summary was reloaded.
Spans(rep, c, o, b) ==
  /\ o <= b /\ 1 .. o \subseteq c /\ c \subseteq 1 .. b
  /\ ~ rep => c = 1 .. o

\* A call that no other one overlaps: it reads and stores an offset and a summary
\* that belong together, and stores when no message is left to fold or few
\* tokens are.
Exact(rep, c, o, history, e) ==
  /\ e.pc \in {"offset", "content"} => Spans(rep, c, o, Bound(e.len))
  /\ e.pc = "content" => e.off = o
  /\ e.pc \in {"fold", "store", "view"} => Spans(rep, e.covers, e.off, Bound(e.len))
  /\ e.pc \in {"store", "view"} => (Count(ViewOf(history, e)) > MaxTokens => ~ (e.off < Bound(e.len)))
  /\ e.pc = "store" => o = e.off

TranscriptTypes ==
  /\ provider \in Providers /\ log \in Seq(Msgs) /\ offset \in Nat /\ content \in SUBSET Nat
  /\ reader \in [Runs -> Readers] /\ exposed \in BOOLEAN /\ repeated \in BOOLEAN
  /\ \A r \in Runs : reader[r].len <= Len(log)

TranscriptInv ==
  /\ TranscriptTypes
  /\ ~ exposed =>
       /\ \A r, q \in Runs : reader[r].pc # "idle" /\ reader[q].pc # "idle" => r = q
       /\ offset <= Bound(Len(log))
       /\ (\A r \in Runs : reader[r].pc # "store") => Spans(repeated, content, offset, Bound(Len(log)))
       /\ \A r \in Runs : Exact(repeated, content, offset, log, reader[r])

\* The fields of a call.
LEMMA ReaderFields ==
  ASSUME NEW P, NEW N, NEW C, NEW e \in [pc : P, len : N, off : N, covers : C], NEW p \in P, NEW n \in N, NEW c \in C
  PROVE  LET R == [pc : P, len : N, off : N, covers : C]
             a == [e EXCEPT !.pc = p]
             b == [e EXCEPT !.pc = p, !.off = n]
             d == [e EXCEPT !.pc = p, !.off = n, !.covers = c]
             f == [e EXCEPT !.off = n, !.covers = c]
             g == [e EXCEPT !.pc = p, !.len = n]
         IN  /\ e.pc \in P /\ e.len \in N /\ e.off \in N /\ e.covers \in C
             /\ a \in R /\ a.pc = p /\ a.len = e.len /\ a.off = e.off /\ a.covers = e.covers
             /\ b \in R /\ b.pc = p /\ b.len = e.len /\ b.off = n /\ b.covers = e.covers
             /\ d \in R /\ d.pc = p /\ d.len = e.len /\ d.off = n /\ d.covers = c
             /\ f \in R /\ f.pc = e.pc /\ f.len = e.len /\ f.off = n /\ f.covers = c
             /\ g \in R /\ g.pc = p /\ g.len = n /\ g.off = e.off /\ g.covers = e.covers
  OBVIOUS

LEMMA ReaderTypes ==
  ASSUME NEW e \in Readers
  PROVE  e.pc \in Pcs /\ e.len \in Nat /\ e.off \in Nat /\ e.covers \in SUBSET Nat
  <1>1. ASSUME NEW P, NEW x \in [pc : P, len : Nat, off : Nat, covers : SUBSET Nat]
        PROVE  x.pc \in P /\ x.len \in Nat /\ x.off \in Nat /\ x.covers \in SUBSET Nat
    OBVIOUS
  <1> QED
    BY ONLY <1>1, e \in Readers DEF Readers

LEMMA NotReadingOk ==
  NotReading \in Readers /\ NotReading.pc = "idle" /\ NotReading.len = 0 /\ NotReading.off = 0 /\ NotReading.covers = {}
  <1>1. "idle" \in Pcs
    BY Zenon DEF Pcs
  <1>2. ASSUME NEW P, NEW p \in P
        PROVE  [pc |-> p, len |-> 0, off |-> 0, covers |-> {}]
                 \in [pc : P, len : Nat, off : Nat, covers : SUBSET Nat]
    OBVIOUS
  <1>3. NotReading \in Readers
    BY ONLY <1>1, <1>2 DEF Readers, NotReading
  <1> QED
    BY ONLY <1>3 DEF NotReading

\* The boundary does not come down when messages are added.
LEMMA BoundFacts ==
  ASSUME NEW m \in Nat, NEW n \in Nat, m <= n
  PROVE  Bound(m) \in Nat /\ Bound(m) <= m /\ Bound(m) <= Bound(n) /\ Bound(n) \in Nat
  BY TranscriptAssumption DEF Bound

\* What is covered stays so when the boundary goes up.
LEMMA SpansMore ==
  ASSUME NEW rep, NEW c, NEW o \in Nat, NEW m \in Nat, NEW n \in Nat, m <= n, Spans(rep, c, o, m)
  PROVE  Spans(rep, c, o, n)
  BY DEF Spans

\* A call that is not there has nothing wrong.
LEMMA IdleExact ==
  ASSUME NEW rep, NEW c, NEW o, NEW history, NEW e, e.pc = "idle"
  PROVE  Exact(rep, c, o, history, e)
  <1>1. /\ e.pc \notin {"offset", "content"} /\ e.pc # "content" /\ e.pc \notin {"fold", "store", "view"}
        /\ e.pc \notin {"store", "view"} /\ e.pc # "store"
    BY ONLY e.pc = "idle", Zenon
  <1> QED
    BY ONLY <1>1, Zenon DEF Exact

\* The view of a call does not change when a message is added.
LEMMA ViewSame ==
  ASSUME NEW M, NEW history \in Seq(M), NEW x \in M, NEW e, e.len \in Nat, e.off \in Nat, e.len <= Len(history)
  PROVE  ViewOf(Append(history, x), e) = ViewOf(history, e)
  <1>1. ASSUME NEW i \in Nat, NEW n \in Nat, n <= Len(history)
        PROVE  SubSeq(Append(history, x), i + 1, n) = SubSeq(history, i + 1, n)
    <2>1. PICK long : long = Append(history, x)
      OBVIOUS
    <2>2. /\ long \in Seq(M) /\ Len(long) = Len(history) + 1 /\ Len(history) \in Nat
          /\ \A j \in 1 .. Len(history) : long[j] = history[j]
      BY <2>1
    <2>3. SubSeq(long, i + 1, n) = SubSeq(history, i + 1, n)
      <3>1. CASE i <= n
        <4>1. n <= Len(long)
          BY ONLY <1>1, <2>2, n \in Nat
        <4>2. PICK a : a = SubSeq(long, i + 1, n)
          OBVIOUS
        <4>3. PICK b : b = SubSeq(history, i + 1, n)
          OBVIOUS
        <4>4. a \in Seq(M) /\ Len(a) = n - i /\ \A j \in 1 .. n - i : a[j] = long[i + j]
          BY ONLY <2>2, <3>1, <4>1, <4>2, EndFacts, i \in Nat, n \in Nat
        <4>5. b \in Seq(M) /\ Len(b) = n - i /\ \A j \in 1 .. n - i : b[j] = history[i + j]
          BY ONLY <1>1, <3>1, <4>3, EndFacts, i \in Nat, n \in Nat, history \in Seq(M)
        <4>6. \A j \in 1 .. n - i : i + j \in 1 .. Len(history)
          BY ONLY <1>1, <2>2, i \in Nat, n \in Nat
        <4>7. \A j \in 1 .. n - i : a[j] = b[j]
          BY ONLY <2>2, <4>4, <4>5, <4>6
        <4>8. a \in Seq(M) /\ b \in Seq(M) /\ Len(a) = Len(b) /\ Len(a) = n - i
          BY ONLY <4>4, <4>5
        <4>9. a = b
          <5>1. \A j \in 1 .. Len(a) : a[j] = b[j]
            BY ONLY <4>7, <4>8
          <5>2. a \in Seq(M) /\ b \in Seq(M) /\ Len(a) = Len(b)
            BY ONLY <4>8
          <5> QED
            BY ONLY <5>1, <5>2
        <4> QED
          BY ONLY <4>2, <4>3, <4>9
      <3>2. CASE ~ (i <= n)
        <4>1. SubSeq(long, i + 1, n) = <<>> /\ SubSeq(history, i + 1, n) = <<>>
          BY ONLY <2>2, <3>2, i \in Nat, n \in Nat, history \in Seq(M)
        <4> QED
          BY ONLY <4>1
      <3> QED
        BY ONLY <3>1, <3>2
    <2> QED
      BY ONLY <2>1, <2>3
  <1>2. SubSeq(Append(history, x), e.off + 1, e.len) = SubSeq(history, e.off + 1, e.len)
    BY <1>1
  <1>3. SubSeq(Append(history, x), 1, e.len) = SubSeq(history, 1, e.len)
    <2>1. 0 \in Nat /\ 0 + 1 = 1
      OBVIOUS
    <2>2. SubSeq(Append(history, x), 0 + 1, e.len) = SubSeq(history, 0 + 1, e.len)
      BY <1>1, <2>1
    <2> QED
      BY ONLY <2>1, <2>2
  <1> QED
    BY ONLY <1>2, <1>3, Zenon DEF ViewOf

\* And it consists of messages.
LEMMA ViewIn ==
  ASSUME NEW history \in Seq(Msgs), NEW e, e.len \in Nat, e.off \in Nat, e.len <= Len(history)
  PROVE  ViewOf(history, e) \in Seq(Msgs)
  <1>1. ASSUME NEW i \in Nat PROVE SubSeq(history, i + 1, e.len) \in Seq(Msgs)
    <2>1. \A j \in (i + 1) .. e.len : history[j] \in Msgs
      OBVIOUS
    <2> QED
      BY <2>1
  <1>2. SubSeq(history, 1, e.len) \in Seq(Msgs)
    <2>1. 0 \in Nat /\ 0 + 1 = 1
      OBVIOUS
    <2> QED
      BY <1>1, <2>1
  <1>3. PICK m : m = Message("assistant", TRUE, <<>>)
    OBVIOUS
  <1>4. m \in Msgs
    <2>1. "assistant" \in Roles
      BY ONLY Zenon DEF Roles
    <2>2. <<>> \in Seq(CallIds)
      OBVIOUS
    <2>3. TRUE \in BOOLEAN
      OBVIOUS
    <2> QED
      BY ONLY <1>3, <2>1, <2>2, <2>3, MsgIn
  <1>5. <<m>> \o SubSeq(history, e.off + 1, e.len) \in Seq(Msgs)
    <2>1. SubSeq(history, e.off + 1, e.len) \in Seq(Msgs)
      BY <1>1
    <2> QED
      BY ONLY <1>4, <2>1
  <1> QED
    BY ONLY <1>2, <1>3, <1>5, Zenon DEF ViewOf

\* The message that is made of a stream.
LEMMA FinalIn ==
  ASSUME log \in Seq(Msgs), NEW chunks \in Streams
  PROVE  Final(chunks) \in Msgs
  <1>1. PICK C : chunks \in Seq(C) /\ \A x \in C : x.calls \in Nat
    <2>1. chunks \in Seq([candidate : BOOLEAN, text : BOOLEAN, calls : Nat])
      BY TranscriptAssumption
    <2>2. \A x \in [candidate : BOOLEAN, text : BOOLEAN, calls : Nat] : x.calls \in Nat
      OBVIOUS
    <2> QED
      BY <2>1, <2>2
  <1>2. PICK z : z = [i \in 1 .. Len(chunks) |-> IF i \in Counted(chunks) THEN chunks[i].calls ELSE 0]
    OBVIOUS
  <1>3. z \in Seq(Nat)
    <2>1. Len(chunks) \in Nat /\ \A i \in 1 .. Len(chunks) : chunks[i].calls \in Nat
      BY ONLY <1>1
    <2>2. \A i \in 1 .. Len(chunks) : (IF i \in Counted(chunks) THEN chunks[i].calls ELSE 0) \in Nat
      BY ONLY <2>1
    <2> QED
      BY ONLY <1>2, <2>1, <2>2
  <1>4. PICK n : n = Total(z)
    OBVIOUS
  <1>5. n \in Nat
    BY ONLY <1>3, <1>4, SumsExist, TotalIs
  <1>6. PICK calls : calls = [k \in 1 .. n |-> <<Len(log) + 1, k>>]
    OBVIOUS
  <1>7. calls \in Seq(CallIds)
    <2>1. Len(log) + 1 \in Nat
      OBVIOUS
    <2>2. \A k \in 1 .. n : <<Len(log) + 1, k>> \in CallIds
      BY ONLY <1>5, <2>1 DEF CallIds
    <2> QED
      BY ONLY <1>5, <1>6, <2>2
  <1>8. PICK role : role = IF n > 0 THEN "tool" ELSE "assistant"
    OBVIOUS
  <1>9. role \in Roles
    BY ONLY <1>8, Zenon DEF Roles
  <1>10. PICK text : text = \E i \in Counted(chunks) : chunks[i].text
    OBVIOUS
  <1>11. text \in BOOLEAN
    BY ONLY <1>10, Zenon
  <1>12. Final(chunks) = Message(role, text, calls)
    BY ONLY <1>2, <1>4, <1>6, <1>8, <1>10, Zenon DEF Final
  <1> QED
    BY ONLY <1>7, <1>9, <1>11, <1>12, MsgIn

\* A step of one call.
LEMMA CallSteps ==
  ASSUME TranscriptInv, NEW r \in Runs, NEW e \in Readers, reader' = [reader EXCEPT ![r] = e],
         provider' = provider, repeated' = repeated,
         log' \in Seq(Msgs), Len(log) <= Len(log'), offset' \in Nat,
         content' \in SUBSET Nat, exposed' \in BOOLEAN, e.len <= Len(log'),
         ~ exposed' => /\ \A q \in Runs \ {r} : reader[q].pc = "idle"
                       /\ offset' <= Bound(Len(log'))
                       /\ e.pc # "store" => Spans(repeated', content', offset', Bound(Len(log')))
                       /\ Exact(repeated', content', offset', log', e)
  PROVE  TranscriptInv'
  <1>1. /\ provider \in Providers /\ log \in Seq(Msgs) /\ reader \in [Runs -> Readers]
        /\ repeated \in BOOLEAN /\ \A q \in Runs : reader[q].len <= Len(log)
    BY DEF TranscriptInv, TranscriptTypes
  <1>2. /\ reader' \in [Runs -> Readers] /\ reader'[r] = e
        /\ \A q \in Runs \ {r} : reader'[q] = reader[q]
    BY ONLY <1>1, reader' = [reader EXCEPT ![r] = e], e \in Readers, r \in Runs
  <1>3. \A q \in Runs : reader'[q].len <= Len(log')
    <2>1. \A q \in Runs : reader[q].len \in Nat
      BY ONLY <1>1, ReaderTypes
    <2>2. Len(log) \in Nat /\ Len(log') \in Nat
      BY <1>1
    <2>3. ASSUME NEW q \in Runs PROVE reader'[q].len <= Len(log')
      <3>1. CASE q = r
        BY ONLY <1>2, <3>1, e.len <= Len(log')
      <3>2. CASE q # r
        BY ONLY <1>1, <1>2, <2>1, <2>2, <3>2, q \in Runs, Len(log) <= Len(log')
      <3> QED
        BY ONLY <3>1, <3>2
    <2> QED
      BY ONLY <2>3
  <1>4. TranscriptTypes'
    BY <1>1, <1>2, <1>3 DEF TranscriptTypes
  <1>5. ASSUME ~ exposed'
        PROVE  /\ \A p, q \in Runs : reader'[p].pc # "idle" /\ reader'[q].pc # "idle" => p = q
               /\ offset' <= Bound(Len(log'))
               /\ (\A q \in Runs : reader'[q].pc # "store") => Spans(repeated', content', offset', Bound(Len(log')))
               /\ \A q \in Runs : Exact(repeated', content', offset', log', reader'[q])
    <2>1. /\ \A q \in Runs \ {r} : reader'[q].pc = "idle"
          /\ offset' <= Bound(Len(log'))
          /\ e.pc # "store" => Spans(repeated', content', offset', Bound(Len(log')))
          /\ Exact(repeated', content', offset', log', e)
      BY <1>2, <1>5
    <2>2. \A p, q \in Runs : reader'[p].pc # "idle" /\ reader'[q].pc # "idle" => p = q
      BY ONLY <2>1, Zenon
    <2>3. (\A q \in Runs : reader'[q].pc # "store") => Spans(repeated', content', offset', Bound(Len(log')))
      BY ONLY <1>2, <2>1, r \in Runs, Zenon
    <2>4. \A q \in Runs : Exact(repeated', content', offset', log', reader'[q])
      BY ONLY <1>2, <2>1, IdleExact, Zenon
    <2> QED
      BY ONLY <2>1, <2>2, <2>3, <2>4
  <1> QED
    BY ONLY <1>4, <1>5 DEF TranscriptInv, Exact, Spans, Bound, ViewOf, TranscriptTypes

\* In the beginning.
LEMMA TranscriptInvInit == PInit => TranscriptInv
  <1> SUFFICES ASSUME PInit PROVE TranscriptInv
    OBVIOUS
  <1>1. /\ provider \in Providers /\ log = <<>> /\ offset = 0 /\ content = {}
        /\ reader = [r \in Runs |-> NotReading] /\ exposed = FALSE
        /\ repeated = FALSE
    BY DEF PInit
  <1>2. log \in Seq(Msgs) /\ Len(log) = 0 /\ offset \in Nat /\ content \in SUBSET Nat
    BY ONLY <1>1
  <1>3. reader \in [Runs -> Readers] /\ \A r \in Runs : reader[r] = NotReading
    BY ONLY <1>1, NotReadingOk
  <1>4. TranscriptTypes
    <2>1. \A r \in Runs : reader[r].len <= Len(log)
      BY ONLY <1>2, <1>3, NotReadingOk
    <2> QED
      BY ONLY <1>1, <1>2, <1>3, <2>1 DEF TranscriptTypes
  <1>5. offset <= Bound(Len(log))
    <2>1. 0 \in Nat /\ 0 <= 0
      OBVIOUS
    <2>2. Bound(0) \in Nat
      BY <2>1, BoundFacts
    <2> QED
      BY ONLY <1>1, <1>2, <2>2
  <1>7. Spans(repeated, content, offset, Bound(Len(log)))
    <2>1. content = 1 .. offset /\ content \subseteq 1 .. Bound(Len(log)) /\ 1 .. offset \subseteq content
      BY ONLY <1>1
    <2> QED
      BY ONLY <1>5, <2>1 DEF Spans
  <1>6. /\ \A r, q \in Runs : reader[r].pc # "idle" /\ reader[q].pc # "idle" => r = q
        /\ \A r \in Runs : Exact(repeated, content, offset, log, reader[r])
    BY ONLY <1>3, NotReadingOk, IdleExact, Zenon
  <1> QED
    BY ONLY <1>2, <1>4, <1>5, <1>6, <1>7 DEF TranscriptInv

\* A message is added.
LEMMA SaysKeeps == TranscriptInv /\ Says => TranscriptInv'
  <1> SUFFICES ASSUME TranscriptInv, Says PROVE TranscriptInv'
    OBVIOUS
  <1>1. PICK m : log' = Append(log, m) /\ m = Message("user", TRUE, <<>>)
    BY DEF Says
  <1>2. m \in Msgs
    <2>1. "user" \in Roles
      BY ONLY Zenon DEF Roles
    <2>2. <<>> \in Seq(CallIds) /\ TRUE \in BOOLEAN
      OBVIOUS
    <2> QED
      BY ONLY <1>1, <2>1, <2>2, MsgIn
  <1>3. provider' = provider /\ offset' = offset /\ content' = content /\ reader' = reader /\ exposed' = exposed
        /\ repeated' = repeated
    BY DEF Says
  <1>4. TranscriptTypes /\ log \in Seq(Msgs) /\ reader \in [Runs -> Readers] /\ \A r \in Runs : reader[r].len <= Len(log)
    BY DEF TranscriptInv, TranscriptTypes
  <1>5. log' \in Seq(Msgs) /\ Len(log') = Len(log) + 1 /\ Len(log) \in Nat
    <2>1. log \in Seq(Msgs) /\ log' = Append(log, m)
      BY <1>1, <1>4
    <2> QED
      BY ONLY <1>2, <2>1
  <1>6. \A r \in Runs : reader[r].len \in Nat /\ reader[r].off \in Nat
    BY ONLY <1>4, ReaderTypes
  <1>7. \A r \in Runs : reader[r].len <= Len(log')
    BY ONLY <1>4, <1>5, <1>6
  <1>8. \A r \in Runs : ViewOf(log', reader[r]) = ViewOf(log, reader[r])
    BY ONLY <1>1, <1>2, <1>4, <1>6, ViewSame
  <1>9. \A r \in Runs : Exact(repeated, content, offset, log, reader[r]) => Exact(repeated, content, offset, log', reader[r])
    BY ONLY <1>8, Zenon DEF Exact
  <1>10. ~ exposed => offset <= Bound(Len(log'))
    <2>1. Len(log) \in Nat /\ Len(log') \in Nat /\ Len(log) <= Len(log')
      BY ONLY <1>5
    <2>2. Bound(Len(log)) \in Nat /\ Bound(Len(log')) \in Nat /\ Bound(Len(log)) <= Bound(Len(log'))
      BY ONLY <2>1, BoundFacts
    <2>3. offset \in Nat /\ (~ exposed => offset <= Bound(Len(log)))
      BY DEF TranscriptInv, TranscriptTypes
    <2> QED
      BY ONLY <2>2, <2>3
  <1>11. TranscriptTypes'
    BY <1>3, <1>4, <1>5, <1>7 DEF TranscriptTypes
  <1>12. ~ exposed => /\ \A r, q \in Runs : reader[r].pc # "idle" /\ reader[q].pc # "idle" => r = q
                      /\ (\A r \in Runs : reader[r].pc # "store") => Spans(repeated, content, offset, Bound(Len(log')))
                      /\ \A r \in Runs : Exact(repeated, content, offset, log', reader[r])
    <2>1. Len(log) \in Nat /\ Len(log') \in Nat /\ Len(log) <= Len(log') /\ offset \in Nat
      BY <1>5 DEF TranscriptInv, TranscriptTypes
    <2>2. Bound(Len(log)) \in Nat /\ Bound(Len(log')) \in Nat /\ Bound(Len(log)) <= Bound(Len(log'))
      BY ONLY <2>1, BoundFacts
    <2>3. Spans(repeated, content, offset, Bound(Len(log))) => Spans(repeated, content, offset, Bound(Len(log')))
      BY ONLY <2>1, <2>2, SpansMore
    <2> QED
      BY <1>9, <2>3 DEF TranscriptInv
  <1> QED
    BY ONLY <1>3, <1>10, <1>11, <1>12 DEF TranscriptInv, TranscriptTypes, Exact, Spans, Bound, ViewOf

\* What the invariant says of a call, alone and in general.
LEMMA CallFacts ==
  ASSUME TranscriptInv, NEW r \in Runs, reader[r].pc # "idle"
  PROVE  /\ log \in Seq(Msgs) /\ Len(log) \in Nat /\ offset \in Nat /\ content \in SUBSET Nat /\ exposed \in BOOLEAN
         /\ reader \in [Runs -> Readers] /\ reader[r] \in Readers
         /\ reader[r].len \in Nat /\ reader[r].off \in Nat /\ reader[r].covers \in SUBSET Nat
         /\ reader[r].len <= Len(log) /\ Bound(reader[r].len) \in Nat
         /\ Bound(reader[r].len) <= reader[r].len /\ Bound(reader[r].len) <= Bound(Len(log))
         /\ Bound(Len(log)) \in Nat
         /\ ~ exposed => /\ \A q \in Runs \ {r} : reader[q].pc = "idle"
                         /\ offset <= Bound(Len(log))
                         /\ reader[r].pc # "store" => Spans(repeated, content, offset, Bound(Len(log)))
                         /\ Exact(repeated, content, offset, log, reader[r])
  <1>1. /\ log \in Seq(Msgs) /\ offset \in Nat /\ content \in SUBSET Nat /\ exposed \in BOOLEAN
        /\ reader \in [Runs -> Readers] /\ reader[r].len <= Len(log)
    BY DEF TranscriptInv, TranscriptTypes
  <1>2. reader[r] \in Readers /\ Len(log) \in Nat
    BY ONLY <1>1, r \in Runs
  <1>3. reader[r].len \in Nat /\ reader[r].off \in Nat /\ reader[r].covers \in SUBSET Nat
    BY ONLY <1>2, ReaderTypes
  <1>4. /\ Bound(reader[r].len) \in Nat /\ Bound(reader[r].len) <= reader[r].len
        /\ Bound(reader[r].len) <= Bound(Len(log)) /\ Bound(Len(log)) \in Nat
    BY ONLY <1>1, <1>2, <1>3, BoundFacts
  <1>5. ASSUME ~ exposed
        PROVE  /\ \A q \in Runs \ {r} : reader[q].pc = "idle"
               /\ offset <= Bound(Len(log))
               /\ reader[r].pc # "store" => Spans(repeated, content, offset, Bound(Len(log)))
               /\ Exact(repeated, content, offset, log, reader[r])
    <2>1. /\ \A p, q \in Runs : reader[p].pc # "idle" /\ reader[q].pc # "idle" => p = q
          /\ offset <= Bound(Len(log))
          /\ (\A q \in Runs : reader[q].pc # "store") => Spans(repeated, content, offset, Bound(Len(log)))
          /\ \A q \in Runs : Exact(repeated, content, offset, log, reader[q])
      BY <1>5 DEF TranscriptInv
    <2>2. \A q \in Runs \ {r} : reader[q].pc = "idle"
      BY ONLY <2>1, r \in Runs, reader[r].pc # "idle", Zenon
    <2>3. reader[r].pc # "store" => Spans(repeated, content, offset, Bound(Len(log)))
      BY ONLY <2>1, <2>2, Zenon
    <2> QED
      BY ONLY <2>1, <2>2, <2>3, r \in Runs, Zenon
  <1> QED
    BY ONLY <1>1, <1>2, <1>3, <1>4, <1>5

\* History begins.
LEMMA BeginsKeeps ==
  ASSUME TranscriptInv, NEW r \in Runs, Begins(r)
  PROVE  TranscriptInv'
  <1>1. /\ provider' = provider /\ log' = log /\ offset' = offset /\ content' = content
        /\ exposed' = (exposed \/ \E q \in Runs \ {r} : reader[q].pc # "idle") /\ reader[r].pc = "idle"
        /\ repeated' = repeated
    BY DEF Begins
  <1>2. PICK e : e = [NotReading EXCEPT !.pc = "offset", !.len = Len(log)]
    OBVIOUS
  <1>3. reader' = [reader EXCEPT ![r] = e]
    BY <1>2 DEF Begins
  <1>4. log \in Seq(Msgs) /\ offset \in Nat /\ content \in SUBSET Nat /\ exposed \in BOOLEAN
    BY DEF TranscriptInv, TranscriptTypes
  <1>5. Len(log) \in Nat
    BY ONLY <1>4
  <1>6. "offset" \in Pcs
    BY ONLY Zenon DEF Pcs
  <1>7. e \in Readers /\ e.pc = "offset" /\ e.len = Len(log)
    <2>1. NotReading \in Readers /\ {} \in SUBSET Nat
      BY NotReadingOk
    <2> QED
      BY ONLY <1>2, <1>5, <1>6, <2>1, ReaderFields DEF Readers
  <1>8. exposed' \in BOOLEAN
    BY ONLY <1>1, Zenon
  <1>9. ASSUME ~ exposed'
        PROVE  /\ \A q \in Runs \ {r} : reader[q].pc = "idle"
               /\ offset' <= Bound(Len(log'))
               /\ e.pc # "store" => Spans(repeated', content', offset', Bound(Len(log')))
               /\ Exact(repeated', content', offset', log', e)
    <2>1. ~ exposed /\ \A q \in Runs \ {r} : reader[q].pc = "idle"
      BY ONLY <1>1, <1>9, Zenon
    <2>2. /\ offset <= Bound(Len(log))
          /\ (\A q \in Runs : reader[q].pc # "store") => Spans(repeated, content, offset, Bound(Len(log)))
      BY <2>1 DEF TranscriptInv
    <2>3. \A q \in Runs : reader[q].pc # "store"
      BY ONLY <1>1, <2>1, Zenon
    <2>4. Exact(repeated, content, offset, log, e)
      <3>1. /\ e.pc # "content" /\ e.pc \notin {"fold", "store", "view"}
            /\ e.pc \notin {"store", "view"} /\ e.pc # "store"
        BY ONLY <1>7, Zenon
      <3>2. Spans(repeated, content, offset, Bound(e.len))
        BY ONLY <1>7, <2>2, <2>3
      <3> QED
        BY ONLY <3>1, <3>2, Zenon DEF Exact
    <2> QED
      BY ONLY <1>1, <2>1, <2>2, <2>3, <2>4
  <1>10. log' \in Seq(Msgs) /\ Len(log) <= Len(log') /\ e.len <= Len(log') /\ offset' \in Nat /\ content' \in SUBSET Nat
    BY ONLY <1>1, <1>4, <1>5, <1>7
  <1> QED
    BY <1>1, <1>3, <1>7, <1>8, <1>9, <1>10, CallSteps

\* A call that leaves the log, the offset and the summary.
LEMMA CallOnly ==
  ASSUME TranscriptInv, NEW r \in Runs, reader[r].pc # "idle", reader[r].pc # "store",
         NEW e \in Readers, reader' = [reader EXCEPT ![r] = e],
         provider' = provider, log' = log, offset' = offset, content' = content, repeated' = repeated,
         exposed' \in BOOLEAN, ~ exposed' => ~ exposed, e.len <= Len(log),
         ~ exposed' => Exact(repeated, content, offset, log, e)
  PROVE  TranscriptInv'
  <1>1. log' \in Seq(Msgs) /\ Len(log) <= Len(log') /\ e.len <= Len(log') /\ offset' \in Nat /\ content' \in SUBSET Nat
    <2>1. log \in Seq(Msgs) /\ Len(log) \in Nat /\ offset \in Nat /\ content \in SUBSET Nat
      BY CallFacts
    <2> QED
      BY <2>1
  <1>2. ~ exposed' => /\ \A q \in Runs \ {r} : reader[q].pc = "idle"
                      /\ offset' <= Bound(Len(log'))
                      /\ e.pc # "store" => Spans(repeated', content', offset', Bound(Len(log')))
                      /\ Exact(repeated', content', offset', log', e)
    BY CallFacts
  <1> QED
    BY <1>1, <1>2, CallSteps

LEMMA ReadsOffsetKeeps ==
  ASSUME TranscriptInv, NEW r \in Runs, ReadsOffset(r)
  PROVE  TranscriptInv'
  <1>1. /\ provider' = provider /\ log' = log /\ offset' = offset /\ content' = content /\ exposed' = exposed
        /\ repeated' = repeated
        /\ reader[r].pc = "offset" /\ reader' = [reader EXCEPT ![r].pc = "content", ![r].off = offset]
    BY DEF ReadsOffset
  <1>2. reader[r].pc # "idle" /\ reader[r].pc # "store" /\ "content" \in Pcs
    BY ONLY <1>1, Zenon DEF Pcs
  <1>3. /\ reader[r] \in Readers /\ reader[r].len <= Len(log) /\ offset \in Nat /\ exposed \in BOOLEAN
        /\ ~ exposed => Exact(repeated, content, offset, log, reader[r])
    BY ONLY <1>2, CallFacts, TranscriptInv, r \in Runs
  <1>4. PICK e : e = [reader[r] EXCEPT !.pc = "content", !.off = offset]
    OBVIOUS
  <1>5. reader' = [reader EXCEPT ![r] = e]
    BY ONLY <1>1, <1>4
  <1>6. e \in Readers /\ e.pc = "content" /\ e.len = reader[r].len /\ e.off = offset
    <2>1. {} \in SUBSET Nat
      OBVIOUS
    <2> QED
      BY ONLY <1>2, <1>3, <1>4, <2>1, ReaderFields DEF Readers
  <1>7. ~ exposed => Exact(repeated, content, offset, log, e)
    <2>1. /\ e.pc \notin {"fold", "store", "view"} /\ e.pc \notin {"store", "view"} /\ e.pc # "store"
          /\ reader[r].pc \in {"offset", "content"}
      BY ONLY <1>1, <1>6, Zenon
    <2> QED
      BY ONLY <1>3, <1>6, <2>1, Zenon DEF Exact
  <1> QED
    BY ONLY <1>1, <1>2, <1>3, <1>5, <1>6, <1>7, CallOnly, TranscriptInv, r \in Runs

LEMMA ReadsContentKeeps ==
  ASSUME TranscriptInv, NEW r \in Runs, ReadsContent(r)
  PROVE  TranscriptInv'
  <1>1. /\ provider' = provider /\ log' = log /\ offset' = offset /\ content' = content /\ exposed' = exposed
        /\ repeated' = repeated
        /\ reader[r].pc = "content"
    BY DEF ReadsContent
  <1>2. reader[r].pc # "idle" /\ reader[r].pc # "store" /\ "fold" \in Pcs /\ reader[r].pc \in {"offset", "content"}
    BY ONLY <1>1, Zenon DEF Pcs
  <1>3. /\ reader[r] \in Readers /\ reader[r].len <= Len(log) /\ exposed \in BOOLEAN /\ content \in SUBSET Nat
        /\ reader[r].off \in Nat /\ reader[r].len \in Nat
        /\ ~ exposed => Exact(repeated, content, offset, log, reader[r])
        /\ Bound(reader[r].len) <= reader[r].len /\ Bound(reader[r].len) \in Nat
    BY ONLY <1>2, CallFacts, TranscriptInv, r \in Runs
  <1>4. PICK o, c : /\ o = IF reader[r].off > reader[r].len THEN 0 ELSE reader[r].off
                    /\ c = IF reader[r].off > reader[r].len THEN {} ELSE content
    OBVIOUS
  <1>5. o \in Nat /\ c \in SUBSET Nat
    BY ONLY <1>3, <1>4
  <1>6. PICK e : e = [reader[r] EXCEPT !.pc = "fold", !.off = o, !.covers = c]
    OBVIOUS
  <1>7. reader' = [reader EXCEPT ![r] = e]
    <2>1. reader' = [reader EXCEPT ![r].pc = "fold",
                                   ![r].off = IF reader[r].off > reader[r].len THEN 0 ELSE @,
                                   ![r].covers = IF reader[r].off > reader[r].len THEN {} ELSE content]
      BY DEF ReadsContent
    <2>2. reader \in [Runs -> Readers]
      BY <1>2, CallFacts
    <2> QED
      BY ONLY <1>3, <1>4, <1>6, <2>1, <2>2, r \in Runs DEF Readers
  <1>8. e \in Readers /\ e.pc = "fold" /\ e.len = reader[r].len /\ e.off = o /\ e.covers = c
    BY ONLY <1>2, <1>3, <1>5, <1>6, ReaderFields DEF Readers
  <1>9. ASSUME ~ exposed PROVE Exact(repeated, content, offset, log, e)
    <2>1. /\ e.pc \notin {"offset", "content"} /\ e.pc # "content" /\ e.pc \notin {"store", "view"} /\ e.pc # "store"
      BY ONLY <1>8, Zenon
    <2>2. reader[r].off = offset /\ Spans(repeated, content, offset, Bound(reader[r].len))
      BY ONLY <1>1, <1>2, <1>3, <1>9, Zenon DEF Exact
    <2>a. offset <= Bound(reader[r].len)
      BY ONLY <2>2, Zenon DEF Spans
    <2>3. o = offset /\ c = content
      BY ONLY <1>3, <1>4, <2>2, <2>a
    <2>4. Spans(repeated, e.covers, e.off, Bound(e.len))
      BY ONLY <1>8, <2>2, <2>3
    <2> QED
      BY ONLY <2>1, <2>4, Zenon DEF Exact
  <1> QED
    BY ONLY <1>1, <1>2, <1>3, <1>7, <1>8, <1>9, CallOnly, TranscriptInv, r \in Runs

\* The boundary and the view in the words of the module.
LEMMA InWords ==
  ASSUME NEW e
  PROVE  Boundary(e) = Bound(e.len) /\ WorkingView(e) = ViewOf(log, e)
  BY Zenon DEF Boundary, Bound, WorkingView, ViewOf

\* A pass of the loop.
LEMMA FoldsKeeps ==
  ASSUME TranscriptInv, NEW r \in Runs, Folds(r)
  PROVE  TranscriptInv'
  <1>1. /\ provider' = provider /\ log' = log /\ offset' = offset /\ content' = content /\ repeated' = repeated
        /\ reader[r].pc = "fold" /\ reader[r].off < Bound(reader[r].len)
    BY InWords DEF Folds, TooLong
  <1>2. reader[r].pc # "idle" /\ reader[r].pc # "store" /\ reader[r].pc \in {"fold", "store", "view"}
    BY ONLY <1>1, Zenon
  <1>3. /\ reader[r] \in Readers /\ reader[r].len <= Len(log) /\ exposed \in BOOLEAN
        /\ reader[r].off \in Nat /\ reader[r].len \in Nat /\ reader[r].covers \in SUBSET Nat
        /\ ~ exposed => Exact(repeated, content, offset, log, reader[r])
        /\ Bound(reader[r].len) \in Nat /\ reader \in [Runs -> Readers]
    BY ONLY <1>2, CallFacts, TranscriptInv, r \in Runs
  <1>4. PICK end, batch : /\ end = Min2(reader[r].off + BatchSize, Bound(reader[r].len))
                          /\ batch = reader[r].off + 1 .. end
    OBVIOUS
  <1>5. PICK summary : /\ summary \in {reader[r].covers \cup batch, {}}
                       /\ reader' = [reader EXCEPT ![r].off = end, ![r].covers = summary]
                       /\ exposed' = (exposed \/ summary = {})
    BY <1>4, InWords, Zenon DEF Folds, extendSummary
  <1>6. end \in Nat /\ reader[r].off < end /\ end <= Bound(reader[r].len)
    <2>1. BatchSize \in Nat /\ BatchSize # 0
      BY TranscriptAssumption
    <2> QED
      BY ONLY <1>1, <1>3, <1>4, <2>1 DEF Min2
  <1>7. summary \in SUBSET Nat
    <2>1. batch \in SUBSET Nat
      BY ONLY <1>3, <1>4, <1>6
    <2> QED
      BY ONLY <1>3, <1>5, <2>1
  <1>8. PICK e : e = [reader[r] EXCEPT !.off = end, !.covers = summary]
    OBVIOUS
  <1>9. reader' = [reader EXCEPT ![r] = e]
    BY ONLY <1>3, <1>5, <1>8
  <1>10. e \in Readers /\ e.pc = "fold" /\ e.len = reader[r].len /\ e.off = end /\ e.covers = summary
    <2>1. "fold" \in Pcs
      BY ONLY Zenon DEF Pcs
    <2> QED
      BY ONLY <1>1, <1>3, <1>6, <1>7, <1>8, <2>1, ReaderFields DEF Readers
  <1>11. exposed' \in BOOLEAN /\ (~ exposed' => ~ exposed)
    BY ONLY <1>5, Zenon
  <1>12. ASSUME ~ exposed' PROVE Exact(repeated, content, offset, log, e)
    <2>1. ~ exposed /\ summary = reader[r].covers \cup batch
      BY ONLY <1>5, <1>12, Zenon
    <2>2. Spans(repeated, reader[r].covers, reader[r].off, Bound(reader[r].len))
      BY ONLY <1>2, <1>3, <2>1, Zenon DEF Exact
    <2>3. Spans(repeated, summary, end, Bound(reader[r].len))
      <3>1. /\ 1 .. reader[r].off \subseteq reader[r].covers
            /\ reader[r].covers \subseteq 1 .. Bound(reader[r].len)
            /\ ~ repeated => reader[r].covers = 1 .. reader[r].off
        BY ONLY <2>2, Zenon DEF Spans
      <3>2. 1 .. end = (1 .. reader[r].off) \cup batch /\ batch \subseteq 1 .. Bound(reader[r].len)
        BY ONLY <1>3, <1>4, <1>6
      <3> QED
        BY ONLY <1>6, <2>1, <3>1, <3>2 DEF Spans
    <2>4. Spans(repeated, e.covers, e.off, Bound(e.len))
      BY ONLY <1>10, <2>3
    <2>5. /\ e.pc \notin {"offset", "content"} /\ e.pc # "content" /\ e.pc \notin {"store", "view"} /\ e.pc # "store"
      BY ONLY <1>10, Zenon
    <2> QED
      BY ONLY <2>4, <2>5, Zenon DEF Exact
  <1>13. e.len <= Len(log)
    BY ONLY <1>3, <1>10
  <1> QED
    BY ONLY <1>1, <1>2, <1>9, <1>10, <1>11, <1>12, <1>13, CallOnly, TranscriptInv, r \in Runs

\* The call ends, with an error.
LEMMA FailsKeeps ==
  ASSUME TranscriptInv, NEW r \in Runs, FoldFails(r) \/ AnswerFails(r)
  PROVE  TranscriptInv'
  <1>1. /\ provider' = provider /\ log' = log /\ offset' = offset /\ content' = content /\ exposed' = exposed
        /\ repeated' = repeated
        /\ reader[r].pc \in {"fold", "view"} /\ reader' = [reader EXCEPT ![r] = NotReading]
    BY DEF FoldFails, AnswerFails
  <1>2. reader[r].pc # "idle" /\ reader[r].pc # "store"
    BY ONLY <1>1, Zenon
  <1>3. Len(log) \in Nat /\ exposed \in BOOLEAN
    BY ONLY <1>2, CallFacts, TranscriptInv, r \in Runs
  <1>4. NotReading.len <= Len(log)
    BY ONLY <1>3, NotReadingOk
  <1>5. Exact(repeated, content, offset, log, NotReading)
    BY ONLY NotReadingOk, IdleExact
  <1> QED
    BY ONLY <1>1, <1>2, <1>3, <1>4, <1>5, NotReadingOk, CallOnly, TranscriptInv, r \in Runs

\* The offset is stored, and then the summary.
LEMMA StoresOffsetKeeps ==
  ASSUME TranscriptInv, NEW r \in Runs, StoresOffset(r)
  PROVE  TranscriptInv'
  <1>1. /\ provider' = provider /\ log' = log /\ offset' = reader[r].off /\ content' = content /\ exposed' = exposed
        /\ repeated' = repeated
        /\ reader[r].pc = "fold" /\ reader' = [reader EXCEPT ![r].pc = "store"]
    BY DEF StoresOffset
  <1>2. Count(ViewOf(log, reader[r])) > MaxTokens => ~ (reader[r].off < Bound(reader[r].len))
    BY InWords DEF StoresOffset, TooLong
  <1>3. reader[r].pc # "idle" /\ reader[r].pc \in {"fold", "store", "view"} /\ "store" \in Pcs
    BY ONLY <1>1, Zenon DEF Pcs
  <1>4. /\ reader[r] \in Readers /\ reader[r].len <= Len(log) /\ exposed \in BOOLEAN
        /\ reader[r].off \in Nat /\ reader[r].len \in Nat /\ reader \in [Runs -> Readers]
        /\ log \in Seq(Msgs) /\ Len(log) \in Nat /\ content \in SUBSET Nat
        /\ ~ exposed => Exact(repeated, content, offset, log, reader[r]) /\ \A q \in Runs \ {r} : reader[q].pc = "idle"
        /\ Bound(reader[r].len) \in Nat /\ Bound(Len(log)) \in Nat /\ Bound(reader[r].len) <= Bound(Len(log))
    BY ONLY <1>3, CallFacts, TranscriptInv, r \in Runs
  <1>5. PICK e : e = [reader[r] EXCEPT !.pc = "store"]
    OBVIOUS
  <1>6. reader' = [reader EXCEPT ![r] = e]
    BY ONLY <1>1, <1>4, <1>5
  <1>7. e \in Readers /\ e.pc = "store" /\ e.len = reader[r].len /\ e.off = reader[r].off /\ e.covers = reader[r].covers
    <2>1. {} \in SUBSET Nat /\ 0 \in Nat
      OBVIOUS
    <2> QED
      BY ONLY <1>3, <1>4, <1>5, <2>1, ReaderFields DEF Readers
  <1>8. ViewOf(log, e) = ViewOf(log, reader[r])
    BY ONLY <1>7, Zenon DEF ViewOf
  <1>9. ASSUME ~ exposed
        PROVE  /\ \A q \in Runs \ {r} : reader[q].pc = "idle"
               /\ offset' <= Bound(Len(log'))
               /\ e.pc # "store" => Spans(repeated', content', offset', Bound(Len(log')))
               /\ Exact(repeated', content', offset', log', e)
    <2>1. Spans(repeated, reader[r].covers, reader[r].off, Bound(reader[r].len))
      BY ONLY <1>3, <1>4, <1>9, Zenon DEF Exact
    <2>2. offset' <= Bound(Len(log'))
      <3>1. reader[r].off <= Bound(reader[r].len)
        BY ONLY <2>1, Zenon DEF Spans
      <3> QED
        BY ONLY <1>1, <1>4, <3>1
    <2>3. Spans(repeated', e.covers, e.off, Bound(e.len))
      BY ONLY <1>1, <1>7, <2>1
    <2>4. Count(ViewOf(log', e)) > MaxTokens => ~ (e.off < Bound(e.len))
      BY ONLY <1>1, <1>2, <1>7, <1>8
    <2>5. e.pc \notin {"offset", "content"} /\ e.pc # "content"
      BY ONLY <1>7, Zenon
    <2>6. Exact(repeated', content', offset', log', e)
      BY ONLY <1>1, <1>7, <2>3, <2>4, <2>5, Zenon DEF Exact
    <2> QED
      BY ONLY <1>4, <1>7, <1>9, <2>2, <2>6
  <1>10. /\ log' \in Seq(Msgs) /\ Len(log) <= Len(log') /\ offset' \in Nat /\ content' \in SUBSET Nat
         /\ exposed' \in BOOLEAN /\ e.len <= Len(log')
    BY ONLY <1>1, <1>4, <1>7
  <1> QED
    BY ONLY <1>1, <1>6, <1>7, <1>9, <1>10, CallSteps, TranscriptInv, r \in Runs

LEMMA StoresContentKeeps ==
  ASSUME TranscriptInv, NEW r \in Runs, StoresContent(r)
  PROVE  TranscriptInv'
  <1>1. /\ provider' = provider /\ log' = log /\ offset' = offset /\ content' = reader[r].covers /\ exposed' = exposed
        /\ repeated' = repeated
        /\ reader[r].pc = "store" /\ reader' = [reader EXCEPT ![r].pc = "view"]
    BY DEF StoresContent
  <1>2. /\ reader[r].pc # "idle" /\ reader[r].pc \in {"fold", "store", "view"}
        /\ reader[r].pc \in {"store", "view"} /\ "view" \in Pcs
    BY ONLY <1>1, Zenon DEF Pcs
  <1>3. /\ reader[r] \in Readers /\ reader[r].len <= Len(log) /\ exposed \in BOOLEAN
        /\ reader[r].covers \in SUBSET Nat /\ reader \in [Runs -> Readers]
        /\ log \in Seq(Msgs) /\ Len(log) \in Nat /\ offset \in Nat
        /\ ~ exposed => /\ Exact(repeated, content, offset, log, reader[r]) /\ \A q \in Runs \ {r} : reader[q].pc = "idle"
                        /\ offset <= Bound(Len(log))
    BY ONLY <1>2, CallFacts, TranscriptInv, r \in Runs
  <1>4. PICK e : e = [reader[r] EXCEPT !.pc = "view"]
    OBVIOUS
  <1>5. reader' = [reader EXCEPT ![r] = e]
    BY ONLY <1>1, <1>3, <1>4
  <1>6. e \in Readers /\ e.pc = "view" /\ e.len = reader[r].len /\ e.off = reader[r].off /\ e.covers = reader[r].covers
    <2>1. {} \in SUBSET Nat /\ 0 \in Nat
      OBVIOUS
    <2> QED
      BY ONLY <1>2, <1>3, <1>4, <2>1, ReaderFields DEF Readers
  <1>7. ViewOf(log, e) = ViewOf(log, reader[r])
    BY ONLY <1>6, Zenon DEF ViewOf
  <1>8. ASSUME ~ exposed
        PROVE  /\ \A q \in Runs \ {r} : reader[q].pc = "idle"
               /\ offset' <= Bound(Len(log'))
               /\ e.pc # "store" => Spans(repeated', content', offset', Bound(Len(log')))
               /\ Exact(repeated', content', offset', log', e)
    <2>1. /\ Spans(repeated, reader[r].covers, reader[r].off, Bound(reader[r].len)) /\ offset = reader[r].off
          /\ Count(ViewOf(log, reader[r])) > MaxTokens => ~ (reader[r].off < Bound(reader[r].len))
      BY ONLY <1>1, <1>2, <1>3, <1>8, Zenon DEF Exact
    <2>2. Spans(repeated', content', offset', Bound(Len(log')))
      <3>1. /\ offset \in Nat /\ Bound(reader[r].len) \in Nat /\ Bound(Len(log)) \in Nat
            /\ Bound(reader[r].len) <= Bound(Len(log))
        BY ONLY <1>2, CallFacts, TranscriptInv, r \in Runs
      <3>2. Spans(repeated, reader[r].covers, offset, Bound(Len(log)))
        BY ONLY <2>1, <3>1, SpansMore
      <3> QED
        BY ONLY <1>1, <3>2
    <2>3. Spans(repeated', e.covers, e.off, Bound(e.len))
      BY ONLY <1>1, <1>6, <2>1
    <2>4. Count(ViewOf(log', e)) > MaxTokens => ~ (e.off < Bound(e.len))
      BY ONLY <1>1, <1>6, <1>7, <2>1
    <2>5. e.pc \notin {"offset", "content"} /\ e.pc # "content" /\ e.pc # "store"
      BY ONLY <1>6, Zenon
    <2>6. Exact(repeated', content', offset', log', e)
      BY ONLY <2>3, <2>4, <2>5, Zenon DEF Exact
    <2> QED
      BY ONLY <1>1, <1>3, <1>8, <2>2, <2>6
  <1>9. /\ log' \in Seq(Msgs) /\ Len(log) <= Len(log') /\ offset' \in Nat /\ content' \in SUBSET Nat
        /\ exposed' \in BOOLEAN /\ e.len <= Len(log')
    BY ONLY <1>1, <1>3, <1>6
  <1> QED
    BY ONLY <1>1, <1>5, <1>6, <1>8, <1>9, CallSteps, TranscriptInv, r \in Runs

\* The model answers.
LEMMA AnswersKeeps ==
  ASSUME TranscriptInv, NEW r \in Runs, Answers(r)
  PROVE  TranscriptInv'
  <1>1. /\ provider' = provider /\ offset' = offset /\ content' = content /\ exposed' = exposed
        /\ repeated' = repeated
        /\ reader[r].pc = "view" /\ reader' = [reader EXCEPT ![r] = NotReading]
    BY DEF Answers
  <1>2. PICK chunks \in Streams : log' = Append(log, Final(chunks))
    BY DEF Answers
  <1>3. reader[r].pc # "idle" /\ reader[r].pc # "store"
    BY ONLY <1>1, Zenon
  <1>4. /\ exposed \in BOOLEAN /\ log \in Seq(Msgs) /\ Len(log) \in Nat /\ offset \in Nat /\ content \in SUBSET Nat
        /\ ~ exposed => /\ \A q \in Runs \ {r} : reader[q].pc = "idle"
                        /\ offset <= Bound(Len(log)) /\ Spans(repeated, content, offset, Bound(Len(log)))
    BY ONLY <1>3, CallFacts, TranscriptInv, r \in Runs
  <1>5. PICK m : m = Final(chunks)
    OBVIOUS
  <1>6. m \in Msgs
    BY <1>4, <1>5, FinalIn
  <1>7. log' \in Seq(Msgs) /\ Len(log') = Len(log) + 1
    <2>1. log \in Seq(Msgs) /\ log' = Append(log, m)
      BY <1>2, <1>4, <1>5
    <2> QED
      BY ONLY <1>6, <2>1
  <1>8. Len(log') \in Nat /\ Len(log) <= Len(log') /\ NotReading.len <= Len(log')
    BY ONLY <1>4, <1>7, NotReadingOk
  <1>9. ~ exposed' => /\ \A q \in Runs \ {r} : reader[q].pc = "idle"
                      /\ offset' <= Bound(Len(log'))
                      /\ NotReading.pc # "store" => Spans(repeated', content', offset', Bound(Len(log')))
                      /\ Exact(repeated', content', offset', log', NotReading)
    <2>1. Bound(Len(log)) <= Bound(Len(log')) /\ Bound(Len(log)) \in Nat /\ Bound(Len(log')) \in Nat
      BY ONLY <1>4, <1>8, BoundFacts
    <2>2. Exact(repeated', content', offset', log', NotReading)
      BY ONLY NotReadingOk, IdleExact
    <2>3. ~ exposed => offset <= Bound(Len(log'))
      BY ONLY <1>4, <2>1
    <2>4. ~ exposed => Spans(repeated, content, offset, Bound(Len(log')))
      BY ONLY <1>4, <2>1, SpansMore
    <2> QED
      BY ONLY <1>1, <1>4, <2>2, <2>3, <2>4
  <1>10. offset' \in Nat /\ content' \in SUBSET Nat /\ exposed' \in BOOLEAN
    BY ONLY <1>1, <1>4
  <1> QED
    BY ONLY <1>1, <1>7, <1>8, <1>9, <1>10, NotReadingOk, CallSteps, TranscriptInv, r \in Runs

\* The session is loaded from its file: what was covered may come again.
LEMMA ReloadsKeeps ==
  ASSUME TranscriptInv, Reloads
  PROVE  TranscriptInv'
  <1>1. /\ provider' = provider /\ log' = log /\ offset' = 0 /\ content' = content
        /\ reader' = reader /\ exposed' = exposed
        /\ repeated' = (repeated \/ content # {}) /\ \A r \in Runs : reader[r].pc = "idle"
    BY DEF Reloads
  <1>2. TranscriptTypes /\ Len(log) \in Nat
    BY DEF TranscriptInv, TranscriptTypes
  <1>3. repeated' \in BOOLEAN
    BY ONLY <1>1, Zenon
  <1>4. TranscriptTypes'
    BY ONLY <1>1, <1>2, <1>3 DEF TranscriptTypes
  <1>5. Bound(Len(log)) \in Nat
    BY ONLY <1>2, BoundFacts
  <1>6. ASSUME ~ exposed PROVE Spans(repeated', content, 0, Bound(Len(log)))
    <2>1. \A r \in Runs : reader[r].pc # "store"
      BY ONLY <1>1, Zenon
    <2>2. Spans(repeated, content, offset, Bound(Len(log)))
      BY <1>6, <2>1 DEF TranscriptInv
    <2>3. content \subseteq 1 .. Bound(Len(log))
      BY ONLY <2>2, Zenon DEF Spans
    <2>4. ~ repeated' => content = {}
      BY ONLY <1>1, Zenon
    <2>5. 1 .. 0 = {} /\ 0 <= Bound(Len(log))
      BY ONLY <1>5
    <2> QED
      BY ONLY <2>3, <2>4, <2>5 DEF Spans
  <1>7. 0 <= Bound(Len(log))
    BY ONLY <1>5
  <1>8. /\ \A r, q \in Runs : reader'[r].pc # "idle" /\ reader'[q].pc # "idle" => r = q
        /\ \A r \in Runs : Exact(repeated', content', offset', log', reader'[r])
    BY ONLY <1>1, IdleExact, Zenon
  <1>9. ~ exposed' => /\ offset' <= Bound(Len(log'))
                      /\ Spans(repeated', content', offset', Bound(Len(log')))
    BY ONLY <1>1, <1>6, <1>7
  <1> QED
    BY ONLY <1>4, <1>8, <1>9 DEF TranscriptInv, Exact, Spans, Bound, ViewOf

\* The invariant gives the property.
LEMMA TranscriptInvExact == TranscriptInv => ViewsExact
  <1> SUFFICES ASSUME TranscriptInv PROVE ViewsExact
    OBVIOUS
  <1>1. /\ provider \in Providers /\ log \in Seq(Msgs) /\ reader \in [Runs -> Readers]
        /\ \A r \in Runs : reader[r].len <= Len(log)
    BY DEF TranscriptInv, TranscriptTypes
  <1>2. ASSUME NEW r \in Runs, ~ exposed, reader[r].pc = "view"
        PROVE  /\ 1 .. reader[r].off \subseteq reader[r].covers
               /\ reader[r].covers \subseteq 1 .. Boundary(reader[r])
               /\ Count(WorkingView(reader[r])) > MaxTokens => reader[r].off >= Boundary(reader[r])
               /\ ~ repeated => reader[r].covers = 1 .. reader[r].off
    <2>1. reader[r].pc # "idle" /\ reader[r].pc \in {"fold", "store", "view"} /\ reader[r].pc \in {"store", "view"}
      BY ONLY <1>2, Zenon
    <2>2. Exact(repeated, content, offset, log, reader[r]) /\ reader[r].off \in Nat /\ Bound(reader[r].len) \in Nat
      BY ONLY <1>2, <2>1, CallFacts, TranscriptInv, r \in Runs
    <2>3. /\ Spans(repeated, reader[r].covers, reader[r].off, Bound(reader[r].len))
          /\ Count(ViewOf(log, reader[r])) > MaxTokens => ~ (reader[r].off < Bound(reader[r].len))
      BY ONLY <2>1, <2>2, Zenon DEF Exact
    <2>4. Boundary(reader[r]) = Bound(reader[r].len) /\ WorkingView(reader[r]) = ViewOf(log, reader[r])
      BY ONLY InWords
    <2>5. Count(ViewOf(log, reader[r])) > MaxTokens => reader[r].off >= Bound(reader[r].len)
      BY ONLY <2>2, <2>3
    <2>6. /\ 1 .. reader[r].off \subseteq reader[r].covers
          /\ reader[r].covers \subseteq 1 .. Bound(reader[r].len)
          /\ ~ repeated => reader[r].covers = 1 .. reader[r].off
      BY ONLY <2>3, Zenon DEF Spans
    <2> QED
      BY ONLY <2>4, <2>5, <2>6
  <1>3. ASSUME log # <<>>, NEW w, w = Window(log)
        PROVE  /\ w = SubSeq(log, Len(log) - Len(w) + 1, Len(log))
               /\ Fits(log, Len(w)) /\ \A n \in Len(w) + 1 .. Len(log) : ~ Fits(log, n)
               /\ provider # "gemini" => Paired(Request(w))
    <2>1. /\ w \in Seq(Msgs) /\ w = SubSeq(log, Len(log) - Len(w) + 1, Len(log))
          /\ Fits(log, Len(w)) /\ \A n \in Len(w) + 1 .. Len(log) : ~ Fits(log, n)
      <3>1. \A x \in Msgs : Size(x) \in Nat
        BY ONLY MsgFacts
      <3>2. log \in Seq(Msgs)
        BY <1>1
      <3> QED
        BY ONLY <1>3, <3>1, <3>2, WindowLongest
    <2>2. provider # "gemini" => Paired(Request(w))
      BY ONLY <1>1, <2>1, RequestPaired
    <2> QED
      BY ONLY <2>1, <2>2
  <1>4. ASSUME NEW r \in Runs, provider # "gemini" PROVE Paired(Request(WorkingView(reader[r])))
    <2>1. reader[r].len \in Nat /\ reader[r].off \in Nat /\ reader[r].len <= Len(log)
      BY ONLY <1>1, ReaderTypes, r \in Runs
    <2>2. ViewOf(log, reader[r]) \in Seq(Msgs)
      BY ONLY <1>1, <2>1, ViewIn
    <2>3. WorkingView(reader[r]) \in Seq(Msgs)
      BY ONLY <2>2, InWords
    <2> QED
      BY ONLY <1>1, <1>4, <2>3, RequestPaired
  <1> QED
    BY ONLY <1>2, <1>3, <1>4, Zenon DEF ViewsExact, Fits

\* What a model is told (context/summary/summary.go, context/window/window.go,
\* contrib/openai/chat.go, contrib/anthropic/claude.go): as long as calls of
\* Compress do not overlap and no summary is empty, no message is left out, and each
\* is told exactly once until a session with a summary is loaded from its file, which
\* loses the offset; the longest end of the history that fits; and never a call
\* without its result.
THEOREM ViewsExactHolds == PSpec => []ViewsExact
  <1>1. TranscriptInv /\ [PNext]_pvars => TranscriptInv'
    <2> SUFFICES ASSUME TranscriptInv, [PNext]_pvars PROVE TranscriptInv'
      OBVIOUS
    <2>1. CASE Says
      BY <2>1, SaysKeeps
    <2>2. ASSUME NEW r \in Runs, Begins(r) PROVE TranscriptInv'
      BY <2>2, BeginsKeeps
    <2>3. ASSUME NEW r \in Runs, ReadsOffset(r) PROVE TranscriptInv'
      BY <2>3, ReadsOffsetKeeps
    <2>4. ASSUME NEW r \in Runs, ReadsContent(r) PROVE TranscriptInv'
      BY <2>4, ReadsContentKeeps
    <2>5. ASSUME NEW r \in Runs, Folds(r) PROVE TranscriptInv'
      BY <2>5, FoldsKeeps
    <2>6. ASSUME NEW r \in Runs, FoldFails(r) \/ AnswerFails(r) PROVE TranscriptInv'
      BY <2>6, FailsKeeps
    <2>7. ASSUME NEW r \in Runs, StoresOffset(r) PROVE TranscriptInv'
      BY <2>7, StoresOffsetKeeps
    <2>8. ASSUME NEW r \in Runs, StoresContent(r) PROVE TranscriptInv'
      BY <2>8, StoresContentKeeps
    <2>9. ASSUME NEW r \in Runs, Answers(r) PROVE TranscriptInv'
      BY <2>9, AnswersKeeps
    <2>10. CASE UNCHANGED pvars
      BY <2>10 DEF TranscriptInv, TranscriptTypes, Exact, Spans, ViewOf, Bound, pvars
    <2>11. CASE Reloads
      BY <2>11, ReloadsKeeps
    <2> QED
      BY <2>1, <2>2, <2>3, <2>4, <2>5, <2>6, <2>7, <2>8, <2>9, <2>10, <2>11 DEF PNext
  <1> QED
    BY <1>1, TranscriptInvInit, TranscriptInvExact, PTL DEF PSpec

-----------------------------------------------------------------------------
(***************************************************************************)
(* Compile: the graph as a relation, and the searches.                     *)
(***************************************************************************)
Leads(es, n, m) == \E k \in 1 .. Len(es[n]) : es[n][k].to = m

\* Every set of nodes of V has a last one and a first one.
NoCycle(es, V) ==
  \A S \in SUBSET V : S # {} =>
    /\ \E n \in S : \A m \in S : ~ Leads(es, n, m)
    /\ \E n \in S : \A m \in S : ~ Leads(es, m, n)

\* The calls of visit are a path without a node that comes twice.
OnPath(es, sk) ==
  \A j \in 1 .. Len(sk) :
    /\ sk[j].done <= Len(es[sk[j].node])
    /\ j < Len(sk) => sk[j].done >= 1 /\ es[sk[j].node][sk[j].done].to = sk[j + 1].node
Simple(sk) == \A i, j \in 1 .. Len(sk) : sk[i].node = sk[j].node => i = j

\* The edges that the search has followed lead to nodes that were left, except
\* those on the path.
Followed(es, V, sk) ==
  /\ \A n \in V : \A k \in 1 .. Len(es[n]) : es[n][k].to \in V
  /\ \A j \in 1 .. Len(sk) : \A k \in 1 .. sk[j].done :
       es[sk[j].node][k].to \in V \/ (j < Len(sk) /\ k = sk[j].done)

Frame(N) == [node : N, done : Nat]
DfsOk(N, es, V, sk) ==
  /\ V \subseteq N /\ sk \in Seq(Frame(N)) /\ \A j \in 1 .. Len(sk) : sk[j].node \notin V
  /\ OnPath(es, sk) /\ Simple(sk) /\ Followed(es, V, sk) /\ NoCycle(es, V)

\* Every set that holds the entry and that no edge leaves holds n.
Reached(N, es, start, n) ==
  \A S \in SUBSET N : start \in S /\ (\A m \in S : \A k \in 1 .. Len(es[m]) : es[m][k].to \in S) => n \in S

BfsOk(N, es, start, end, q, V) ==
  /\ V \subseteq N /\ q \in Seq(N) /\ end \notin V
  /\ start \in V \/ \E j \in 1 .. Len(q) : q[j] = start
  /\ \A n \in V : \A k \in 1 .. Len(es[n]) :
       es[n][k].to \in V \/ \E j \in 1 .. Len(q) : q[j] = es[n][k].to
  /\ \A n \in V : Reached(N, es, start, n)
  /\ \A j \in 1 .. Len(q) : Reached(N, es, start, q[j])

(***************************************************************************)
(* The inductive invariant.                                                *)
(***************************************************************************)
NumberedEdge == [from : Names, to : Names, conditional : BOOLEAN]

Colours == {"unvisited", "visiting", "visited"}

CompileTypes ==
  /\ nodes \in SUBSET Names /\ IsFiniteSet(nodes)
  /\ edges \in [Names -> Seq(Edge)] /\ numbered \in Seq(NumberedEdge)
  /\ entry \in Names \cup {Unset} /\ finish \in Names \cup {Unset}
  /\ states \in [Names -> Colours]

\* The two records of the edges agree.
Outgoing(n) == {i \in 1 .. Len(numbered) : numbered[i].from = n}
Incoming(n) == {i \in 1 .. Len(numbered) : numbered[i].to = n}
Into(es, n) == {x \in Names \X Nat : x[2] \in 1 .. Len(es[x[1]]) /\ es[x[1]][x[2]].to = n}
Recorded(e, n, d) == e.from = n /\ e.to = d.to /\ e.conditional = d.conditional
Agreeing ==
  /\ \A n \in Names :
       /\ Cardinality(Outgoing(n)) = Len(edges[n])
       /\ IsFiniteSet(Into(edges, n)) /\ Cardinality(Into(edges, n)) = Cardinality(Incoming(n))
       /\ \A k \in 1 .. Len(edges[n]) : \E i \in 1 .. Len(numbered) : Recorded(numbered[i], n, edges[n][k])
  /\ \A i \in 1 .. Len(numbered) :
       \E k \in 1 .. Len(edges[numbered[i].from]) :
         Recorded(numbered[i], numbered[i].from, edges[numbered[i].from][k])

Coloured(colour) == {n \in Names : states[n] = colour}

Searching ==
  /\ phase \in {"build", "acyclic", "reachable", "structure"}
  /\ phase = "build" => states = Unvisited /\ stack = <<>>
  /\ phase \in {"build", "acyclic"} => queue = <<>> /\ seen = {}
  /\ phase # "build" => PointsKnown /\ EdgesKnown /\ verdict = "none"
  /\ phase = "acyclic" =>
       /\ DfsOk(nodes, edges, Coloured("visited"), stack)
       /\ \A n \in Names : states[n] = "visiting" <=> \E j \in 1 .. Len(stack) : stack[j].node = n
  /\ phase \in {"reachable", "structure"} => NoCycle(edges, nodes)
  /\ phase = "reachable" => BfsOk(nodes, edges, entry, finish, queue, seen)
  /\ phase = "structure" => Reached(nodes, edges, entry, finish)

\* What a verdict says.
Judged ==
  /\ verdict = "ok" =>
       /\ PointsKnown /\ EdgesKnown /\ NoCycle(edges, nodes) /\ Reached(nodes, edges, entry, finish)
       /\ ~ FinishHasEdges /\ ~ DeadEnd /\ ~ Mixed /\ infos = NodeInfos
  /\ verdict = "cycle" => ~ NoCycle(edges, nodes)
  /\ verdict = "unreachable" => ~ Reached(nodes, edges, entry, finish)
  /\ verdict = "finish has edges" => finish \in nodes /\ FinishHasEdges
  /\ verdict = "dead end" => DeadEnd
  /\ verdict = "mixed" => Mixed

CompileInv == CompileTypes /\ Agreeing /\ Searching /\ Judged
-----------------------------------------------------------------------------
(***************************************************************************)
(* The depth-first search.                                                 *)
(***************************************************************************)
\* A node that is left has edges to nodes of V alone: sets with it still have a
\* first and a last node, because no edge leads back to it.
LEMMA NoCycleMore ==
  ASSUME NEW es, NEW V, NEW n, n \notin V, NoCycle(es, V),
         \A m \in V : \A k \in 1 .. Len(es[m]) : es[m][k].to \in V,
         \A k \in 1 .. Len(es[n]) : es[n][k].to \in V
  PROVE  NoCycle(es, V \cup {n})
  <1>1. \A m \in V \cup {n} : ~ Leads(es, m, n)
    BY DEF Leads
  <1>2. SUFFICES ASSUME NEW S \in SUBSET (V \cup {n}), S # {}
                 PROVE  /\ \E a \in S : \A m \in S : ~ Leads(es, a, m)
                        /\ \E a \in S : \A m \in S : ~ Leads(es, m, a)
    BY DEF NoCycle
  <1>3. CASE n \notin S
    <2>1. S \in SUBSET V
      BY <1>2, <1>3
    <2> QED
      BY <1>2, <2>1 DEF NoCycle
  <1>4. CASE n \in S
    <2>1. \E a \in S : \A m \in S : ~ Leads(es, m, a)
      BY <1>1, <1>4
    <2>2. CASE S \ {n} = {}
      BY <1>1, <1>4, <2>1, <2>2
    <2>3. CASE S \ {n} # {}
      <3>1. S \ {n} \in SUBSET V
        BY <1>2
      <3>2. PICK a \in S \ {n} : \A m \in S \ {n} : ~ Leads(es, a, m)
        BY <2>3, <3>1 DEF NoCycle
      <3>3. ~ Leads(es, a, n)
        BY <1>1, <3>1, <3>2
      <3> QED
        BY <2>1, <3>2, <3>3
    <2> QED
      BY <2>2, <2>3
  <1> QED
    BY <1>3, <1>4

\* The first call of visit.
LEMMA DfsRoot ==
  ASSUME NEW N, NEW es, NEW V, NEW sk, DfsOk(N, es, V, sk), sk = <<>>, NEW n \in N, n \notin V, Len(es[n]) \in Nat
  PROVE  DfsOk(N, es, V, <<Call(n)>>)
  <1>1. Call(n) \in Frame(N) /\ Call(n).node = n /\ Call(n).done = 0
    BY DEF Call, Frame
  <1>2. PICK c \in Frame(N) : c = Call(n)
    BY <1>1
  <1>3. /\ <<c>> \in Seq(Frame(N)) /\ Len(<<c>>) = 1 /\ <<c>>[1] = c /\ c.node = n /\ c.done = 0
        /\ 1 .. 1 = {1} /\ 1 .. 0 = {} /\ 0 \in Nat
    BY <1>1, <1>2
  <1>4. OnPath(es, <<c>>)
    BY <1>3 DEF OnPath
  <1>5. Simple(<<c>>)
    BY <1>3 DEF Simple
  <1>6. Followed(es, V, <<c>>)
    <2>1. \A m \in V : \A k \in 1 .. Len(es[m]) : es[m][k].to \in V
      BY DEF DfsOk, Followed
    <2> QED
      BY <1>3, <2>1 DEF Followed
  <1> QED
    BY <1>2, <1>3, <1>4, <1>5, <1>6 DEF DfsOk

\* The stack with one edge more of its top done.
LEMMA DoneMore ==
  ASSUME NEW N, NEW sk \in Seq(Frame(N)), sk # <<>>
  PROVE  LET rest == [sk EXCEPT ![Len(sk)].done = @ + 1]
         IN  /\ rest \in Seq(Frame(N)) /\ Len(rest) = Len(sk) /\ Len(sk) \in Nat \ {0}
             /\ \A j \in 1 .. Len(sk) : rest[j].node = sk[j].node /\ (j < Len(sk) => rest[j].done = sk[j].done)
             /\ rest[Len(sk)].done = sk[Len(sk)].done + 1
  <1>1. PICK L : L = Len(sk)
    OBVIOUS
  <1>2. L \in Nat \ {0} /\ sk \in [1 .. L -> Frame(N)] /\ L \in 1 .. L
    BY <1>1
  <1>3. PICK c : c = [sk[L] EXCEPT !.done = @ + 1]
    OBVIOUS
  <1>4. c \in Frame(N) /\ c.node = sk[L].node /\ c.done = sk[L].done + 1
    BY <1>2, <1>3 DEF Frame
  <1>5. PICK rest : rest = [sk EXCEPT ![L] = c]
    OBVIOUS
  <1>6. [sk EXCEPT ![Len(sk)].done = @ + 1] = rest
    BY <1>1, <1>3, <1>5
  <1>7. /\ rest \in [1 .. L -> Frame(N)] /\ rest[L] = c
        /\ \A j \in 1 .. L : j # L => rest[j] = sk[j]
    BY <1>2, <1>4, <1>5
  <1>8. rest \in Seq(Frame(N)) /\ Len(rest) = L
    BY ONLY <1>2, <1>7
  <1>9. \A j \in 1 .. L : rest[j].node = sk[j].node /\ (j < L => rest[j].done = sk[j].done)
    BY <1>2, <1>4, <1>7
  <1>10. rest[L].done = sk[L].done + 1
    BY <1>4, <1>7
  <1> QED
    BY ONLY <1>1, <1>2, <1>6, <1>8, <1>9, <1>10

\* An edge to a node that was left.
LEMMA DfsOver ==
  ASSUME NEW N, NEW es, NEW V, NEW sk, DfsOk(N, es, V, sk), sk # <<>>,
         NEW top, top = sk[Len(sk)], Len(es[top.node]) \in Nat, top.done < Len(es[top.node]),
         es[top.node][top.done + 1].to \in V
  PROVE  DfsOk(N, es, V, [sk EXCEPT ![Len(sk)].done = @ + 1])
  <1>1. PICK rest : rest = [sk EXCEPT ![Len(sk)].done = @ + 1]
    OBVIOUS
  <1>2. PICK L : L = Len(sk)
    OBVIOUS
  <1>3. sk \in Seq(Frame(N))
    BY DEF DfsOk
  <1>4. /\ rest \in Seq(Frame(N)) /\ Len(rest) = L /\ L \in Nat \ {0}
        /\ \A j \in 1 .. L : rest[j].node = sk[j].node /\ (j < L => rest[j].done = sk[j].done)
        /\ rest[L].done = sk[L].done + 1
    BY <1>1, <1>2, <1>3, DoneMore
  <1>5. \A j \in 1 .. L : sk[j].done \in Nat
    <2>1. \A j \in 1 .. L : sk[j] \in Frame(N)
      BY ONLY <1>2, <1>3
    <2> QED
      BY ONLY <2>1 DEF Frame
  <1>6. /\ \A j \in 1 .. L : sk[j].node \notin V
        /\ \A j \in 1 .. L : sk[j].done <= Len(es[sk[j].node])
        /\ \A j \in 1 .. L : j < L => sk[j].done >= 1 /\ es[sk[j].node][sk[j].done].to = sk[j + 1].node
        /\ \A i, j \in 1 .. L : sk[i].node = sk[j].node => i = j
        /\ \A n \in V : \A k \in 1 .. Len(es[n]) : es[n][k].to \in V
        /\ \A j \in 1 .. L : \A k \in 1 .. sk[j].done :
             es[sk[j].node][k].to \in V \/ (j < L /\ k = sk[j].done)
    BY <1>2 DEF DfsOk, OnPath, Simple, Followed
  <1>7. \A j \in 1 .. L : rest[j].node \notin V
    BY <1>4, <1>6
  <1>8. OnPath(es, rest)
    <2> SUFFICES ASSUME NEW j \in 1 .. L
                 PROVE  /\ rest[j].done <= Len(es[rest[j].node])
                        /\ j < L => rest[j].done >= 1 /\ es[rest[j].node][rest[j].done].to = rest[j + 1].node
      BY <1>4 DEF OnPath
    <2>1. CASE j = L
      <3>1. rest[j].done = top.done + 1 /\ rest[j].node = top.node /\ top.done \in Nat
        BY <1>2, <1>4, <1>5, <2>1
      <3> QED
        BY <1>4, <2>1, <3>1
    <2>2. CASE j # L
      <3>1. j < L /\ j + 1 \in 1 .. L
        BY <1>4, <2>2
      <3> QED
        BY <1>4, <1>6, <3>1
    <2> QED
      BY <2>1, <2>2
  <1>9. Simple(rest)
    BY <1>4, <1>6 DEF Simple
  <1>10. Followed(es, V, rest)
    <2> SUFFICES ASSUME NEW j \in 1 .. L, NEW k \in 1 .. rest[j].done
                 PROVE  es[rest[j].node][k].to \in V \/ (j < L /\ k = rest[j].done)
      BY <1>4, <1>6 DEF Followed
    <2>1. CASE j = L
      <3>1. rest[j].done = top.done + 1 /\ rest[j].node = top.node /\ top.done \in Nat
        BY <1>2, <1>4, <1>5, <2>1
      <3>2. k = top.done + 1 \/ k \in 1 .. top.done
        BY <3>1
      <3>3. \A i \in 1 .. top.done : es[top.node][i].to \in V
        BY <1>2, <1>4, <1>6
      <3> QED
        BY <3>1, <3>2, <3>3
    <2>2. CASE j # L
      <3>1. j < L
        BY <1>4, <2>2
      <3> QED
        BY <1>4, <1>6, <3>1
    <2> QED
      BY <2>1, <2>2
  <1> QED
    BY <1>1, <1>4, <1>7, <1>8, <1>9, <1>10 DEF DfsOk

\* An edge to a node that was not visited: visit calls itself.
LEMMA DfsInto ==
  ASSUME NEW N, NEW es, NEW V, NEW sk, DfsOk(N, es, V, sk), sk # <<>>,
         NEW top, top = sk[Len(sk)], Len(es[top.node]) \in Nat, top.done < Len(es[top.node]),
         NEW next \in N, next = es[top.node][top.done + 1].to, next \notin V, Len(es[next]) \in Nat,
         \A j \in 1 .. Len(sk) : sk[j].node # next
  PROVE  DfsOk(N, es, V, Append([sk EXCEPT ![Len(sk)].done = @ + 1], Call(next)))
  <1>1. PICK rest : rest = [sk EXCEPT ![Len(sk)].done = @ + 1]
    OBVIOUS
  <1>2. PICK L : L = Len(sk)
    OBVIOUS
  <1>3. sk \in Seq(Frame(N))
    BY DEF DfsOk
  <1>4. /\ rest \in Seq(Frame(N)) /\ Len(rest) = L /\ L \in Nat \ {0}
        /\ \A j \in 1 .. L : rest[j].node = sk[j].node /\ (j < L => rest[j].done = sk[j].done)
        /\ rest[L].done = sk[L].done + 1
    BY <1>1, <1>2, <1>3, DoneMore
  <1>5. \A j \in 1 .. L : sk[j].done \in Nat
    <2>1. \A j \in 1 .. L : sk[j] \in Frame(N)
      BY ONLY <1>2, <1>3
    <2> QED
      BY ONLY <2>1 DEF Frame
  <1>6. /\ \A j \in 1 .. L : sk[j].node \notin V
        /\ \A j \in 1 .. L : sk[j].done <= Len(es[sk[j].node])
        /\ \A j \in 1 .. L : j < L => sk[j].done >= 1 /\ es[sk[j].node][sk[j].done].to = sk[j + 1].node
        /\ \A i, j \in 1 .. L : sk[i].node = sk[j].node => i = j
        /\ \A n \in V : \A k \in 1 .. Len(es[n]) : es[n][k].to \in V
        /\ \A j \in 1 .. L : \A k \in 1 .. sk[j].done :
             es[sk[j].node][k].to \in V \/ (j < L /\ k = sk[j].done)
    BY <1>2 DEF DfsOk, OnPath, Simple, Followed
  <1>7. PICK c \in Frame(N) : c = Call(next)
    BY DEF Call, Frame
  <1>8. c.node = next /\ c.done = 0
    BY <1>7 DEF Call
  <1>9. PICK new : new = Append(rest, c)
    OBVIOUS
  <1>10. /\ new \in Seq(Frame(N)) /\ Len(new) = L + 1 /\ new[L + 1] = c
         /\ \A j \in 1 .. L : new[j] = rest[j]
    BY ONLY <1>4, <1>9, c \in Frame(N)
  <1>11. \A j \in 1 .. L + 1 : j \in 1 .. L \/ j = L + 1
    BY ONLY <1>4
  <1>12. \A j \in 1 .. L + 1 : new[j].node \notin V
    <2>1. \A j \in 1 .. L : new[j].node \notin V
      BY ONLY <1>4, <1>6, <1>10
    <2>2. new[L + 1].node \notin V
      BY ONLY <1>8, <1>10, next \notin V
    <2> QED
      BY ONLY <1>11, <2>1, <2>2
  <1>13. OnPath(es, new)
    <2> SUFFICES ASSUME NEW j \in 1 .. L + 1
                 PROVE  /\ new[j].done <= Len(es[new[j].node])
                        /\ j < L + 1 => new[j].done >= 1 /\ es[new[j].node][new[j].done].to = new[j + 1].node
      BY <1>10 DEF OnPath
    <2>1. CASE j = L + 1
      <3>1. new[j].done = 0 /\ new[j].node = next
        BY <1>8, <1>10, <2>1
      <3> QED
        BY <1>4, <2>1, <3>1
    <2>2. CASE j = L
      <3>1. new[j].done = top.done + 1 /\ new[j].node = top.node /\ top.done \in Nat /\ new[j + 1].node = next
        BY <1>2, <1>4, <1>5, <1>8, <1>10, <2>2
      <3> QED
        BY <1>4, <2>2, <3>1
    <2>3. CASE j # L /\ j # L + 1
      <3>1. j \in 1 .. L /\ j < L /\ j + 1 \in 1 .. L
        BY <1>4, <2>3
      <3>2. new[j].done = sk[j].done /\ new[j].node = sk[j].node /\ new[j + 1].node = sk[j + 1].node
        BY <1>4, <1>10, <3>1
      <3> QED
        BY <1>6, <3>1, <3>2
    <2> QED
      BY <2>1, <2>2, <2>3
  <1>14. Simple(new)
    <2> SUFFICES ASSUME NEW i \in 1 .. L + 1, NEW j \in 1 .. L + 1, new[i].node = new[j].node PROVE i = j
      BY <1>10 DEF Simple
    <2>1. \A l \in 1 .. L : new[l].node = sk[l].node /\ sk[l].node # next
      BY <1>2, <1>4, <1>10
    <2> QED
      BY <1>6, <1>8, <1>10, <1>11, <2>1
  <1>15. Followed(es, V, new)
    <2> SUFFICES ASSUME NEW j \in 1 .. L + 1, NEW k \in 1 .. new[j].done
                 PROVE  es[new[j].node][k].to \in V \/ (j < L + 1 /\ k = new[j].done)
      BY <1>6, <1>10 DEF Followed
    <2>1. CASE j = L + 1
      <3>1. new[j].done = 0
        BY <1>8, <1>10, <2>1
      <3> QED
        BY <3>1
    <2>2. CASE j = L
      <3>1. new[j].done = top.done + 1 /\ new[j].node = top.node /\ top.done \in Nat
        BY <1>2, <1>4, <1>5, <1>10, <2>2
      <3>2. k = top.done + 1 \/ k \in 1 .. top.done
        BY <3>1
      <3>3. \A i \in 1 .. top.done : es[top.node][i].to \in V
        BY <1>2, <1>4, <1>6
      <3> QED
        BY <1>4, <2>2, <3>1, <3>2, <3>3
    <2>3. CASE j # L /\ j # L + 1
      <3>1. j \in 1 .. L /\ j < L /\ j < L + 1
        BY <1>4, <2>3
      <3>2. new[j].done = sk[j].done /\ new[j].node = sk[j].node
        BY <1>4, <1>10, <3>1
      <3> QED
        BY <1>6, <3>1, <3>2
    <2> QED
      BY <2>1, <2>2, <2>3
  <1> QED
    BY <1>1, <1>7, <1>9, <1>10, <1>12, <1>13, <1>14, <1>15 DEF DfsOk

\* visit returns: all edges of the top were followed.
LEMMA DfsLeave ==
  ASSUME NEW N, NEW es, NEW V, NEW sk, DfsOk(N, es, V, sk), sk # <<>>,
         NEW top, top = sk[Len(sk)], Len(es[top.node]) \in Nat, top.done = Len(es[top.node])
  PROVE  DfsOk(N, es, V \cup {top.node}, SubSeq(sk, 1, Len(sk) - 1)) /\ top.node \in N
  <1>1. PICK L : L = Len(sk)
    OBVIOUS
  <1>2. sk \in Seq(Frame(N)) /\ V \subseteq N
    BY DEF DfsOk
  <1>3. L \in Nat \ {0} /\ L \in 1 .. L /\ \A j \in 1 .. L : sk[j] \in Frame(N)
    BY ONLY <1>1, <1>2, sk # <<>>
  <1>4. \A j \in 1 .. L : sk[j].done \in Nat /\ sk[j].node \in N
    BY ONLY <1>3 DEF Frame
  <1>5. PICK low : low = SubSeq(sk, 1, L - 1)
    OBVIOUS
  <1>6. low \in Seq(Frame(N)) /\ Len(low) = L - 1 /\ \A j \in 1 .. L - 1 : low[j] = sk[j]
    BY ONLY <1>1, <1>2, <1>3, <1>5
  <1>7. /\ \A j \in 1 .. L : sk[j].node \notin V
        /\ \A j \in 1 .. L : sk[j].done <= Len(es[sk[j].node])
        /\ \A j \in 1 .. L : j < L => sk[j].done >= 1 /\ es[sk[j].node][sk[j].done].to = sk[j + 1].node
        /\ \A i, j \in 1 .. L : sk[i].node = sk[j].node => i = j
        /\ \A n \in V : \A k \in 1 .. Len(es[n]) : es[n][k].to \in V
        /\ \A j \in 1 .. L : \A k \in 1 .. sk[j].done :
             es[sk[j].node][k].to \in V \/ (j < L /\ k = sk[j].done)
        /\ NoCycle(es, V)
    BY <1>1 DEF DfsOk, OnPath, Simple, Followed
  <1>8. /\ top.node \in N /\ top.node \notin V
        /\ \A k \in 1 .. Len(es[top.node]) : es[top.node][k].to \in V
    BY <1>1, <1>3, <1>4, <1>7
  <1>9. NoCycle(es, V \cup {top.node})
    BY ONLY <1>7, <1>8, NoCycleMore
  <1>10. \A j \in 1 .. L - 1 : j \in 1 .. L /\ j < L /\ j # L /\ j + 1 \in 1 .. L /\ (j + 1 = L \/ j + 1 \in 1 .. L - 1)
    BY ONLY <1>3
  <1>11. \A j \in 1 .. L - 1 : low[j].node \notin V \cup {top.node}
    <2>1. \A j \in 1 .. L - 1 : sk[j].node # top.node
      BY <1>1, <1>3, <1>7, <1>10
    <2> QED
      BY ONLY <1>6, <1>7, <1>10, <2>1
  <1>12. OnPath(es, low)
    <2> SUFFICES ASSUME NEW j \in 1 .. L - 1
                 PROVE  /\ low[j].done <= Len(es[low[j].node])
                        /\ j < L - 1 => low[j].done >= 1 /\ es[low[j].node][low[j].done].to = low[j + 1].node
      BY <1>6 DEF OnPath
    <2>1. low[j] = sk[j] /\ j \in 1 .. L /\ j < L
      BY ONLY <1>6, <1>10, j \in 1 .. L - 1
    <2>2. j < L - 1 => low[j + 1] = sk[j + 1]
      BY ONLY <1>3, <1>6, j \in 1 .. L - 1
    <2> QED
      BY ONLY <1>7, <2>1, <2>2
  <1>13. Simple(low)
    <2> SUFFICES ASSUME NEW i \in 1 .. L - 1, NEW j \in 1 .. L - 1, low[i].node = low[j].node PROVE i = j
      BY <1>6 DEF Simple
    <2> QED
      BY <1>6, <1>7, <1>10
  <1>14. Followed(es, V \cup {top.node}, low)
    <2>1. ASSUME NEW j \in 1 .. L - 1, NEW k \in 1 .. low[j].done
          PROVE  es[low[j].node][k].to \in V \cup {top.node} \/ (j < L - 1 /\ k = low[j].done)
      <3>1. low[j] = sk[j] /\ j \in 1 .. L /\ j < L
        BY ONLY <1>6, <1>10, j \in 1 .. L - 1
      <3>2. es[sk[j].node][k].to \in V \/ k = sk[j].done
        BY <1>7, <3>1
      <3>3. CASE k = sk[j].done
        <4>1. es[sk[j].node][k].to = sk[j + 1].node
          BY <1>7, <3>1, <3>3
        <4>2. j + 1 = L \/ j < L - 1
          BY ONLY <1>3, <3>1
        <4> QED
          BY <1>1, <3>1, <3>3, <4>1, <4>2
      <3> QED
        BY <3>1, <3>2, <3>3
    <2>2. \A n \in V \cup {top.node} : \A k \in 1 .. Len(es[n]) : es[n][k].to \in V \cup {top.node}
      BY <1>7, <1>8
    <2> QED
      BY <1>6, <2>1, <2>2 DEF Followed
  <1>15. V \cup {top.node} \subseteq N
    BY <1>2, <1>8
  <1> QED
    BY <1>1, <1>5, <1>6, <1>8, <1>9, <1>11, <1>12, <1>13, <1>14, <1>15 DEF DfsOk

\* An edge back to the path: the nodes from there on are a cycle.
LEMMA DfsCycle ==
  ASSUME NEW N, NEW es, NEW V, NEW sk, DfsOk(N, es, V, sk), sk # <<>>,
         NEW top, top = sk[Len(sk)], Len(es[top.node]) \in Nat, top.done < Len(es[top.node]),
         NEW b \in 1 .. Len(sk), sk[b].node = es[top.node][top.done + 1].to,
         \A n \in N : Len(es[n]) \in Nat
  PROVE  ~ NoCycle(es, N)
  <1>1. PICK L : L = Len(sk)
    OBVIOUS
  <1>2. sk \in Seq(Frame(N)) /\ b \in 1 .. L
    BY <1>1 DEF DfsOk
  <1>3. L \in Nat \ {0} /\ L \in 1 .. L /\ \A j \in 1 .. L : sk[j] \in Frame(N)
    BY ONLY <1>1, <1>2, sk # <<>>
  <1>4. \A j \in 1 .. L : sk[j].done \in Nat /\ sk[j].node \in N
    BY ONLY <1>3 DEF Frame
  <1>5. /\ \A j \in 1 .. L : sk[j].done <= Len(es[sk[j].node])
        /\ \A j \in 1 .. L : j < L => sk[j].done >= 1 /\ es[sk[j].node][sk[j].done].to = sk[j + 1].node
    BY <1>1 DEF DfsOk, OnPath
  <1> DEFINE S == {sk[j].node : j \in b .. L}
  <1>6. S \in SUBSET N /\ sk[b].node \in S
    <2>1. \A j \in b .. L : j \in 1 .. L
      BY ONLY <1>2, <1>3
    <2>2. b \in b .. L
      BY ONLY <1>2, <1>3
    <2> QED
      BY ONLY <1>4, <2>1, <2>2
  <1>7. ASSUME NEW n \in S PROVE \E m \in S : Leads(es, n, m)
    <2>1. PICK j \in b .. L : n = sk[j].node
      OBVIOUS
    <2>2. CASE j = L
      <3>1. top.done + 1 \in 1 .. Len(es[n]) /\ n = top.node
        BY <1>1, <1>3, <1>4, <2>1, <2>2
      <3>2. Leads(es, n, sk[b].node)
        BY <3>1 DEF Leads
      <3> QED
        BY <1>6, <3>2
    <2>3. CASE j # L
      <3>1. j \in 1 .. L /\ j < L /\ j + 1 \in b .. L
        BY ONLY <1>2, <1>3, <2>3, j \in b .. L
      <3>2. sk[j].done \in 1 .. Len(es[n]) /\ es[n][sk[j].done].to = sk[j + 1].node
        <4>1. sk[j].done \in Nat /\ sk[j].done >= 1 /\ sk[j].done <= Len(es[n]) /\ Len(es[n]) \in Nat
          BY <1>4, <1>5, <2>1, <3>1
        <4>2. es[n][sk[j].done].to = sk[j + 1].node
          BY <1>5, <2>1, <3>1
        <4> QED
          BY ONLY <4>1, <4>2
      <3>3. Leads(es, n, sk[j + 1].node)
        BY ONLY <3>2 DEF Leads
      <3> QED
        BY <3>1, <3>3
    <2> QED
      BY <2>2, <2>3
  <1> HIDE DEF S
  <1> QED
    BY ONLY <1>6, <1>7 DEF NoCycle

(***************************************************************************)
(* The breadth-first search.                                               *)
(***************************************************************************)
\* A node that was searched already.
LEMMA BfsAgain ==
  ASSUME NEW N, NEW es, NEW start, NEW end, NEW q, NEW V, BfsOk(N, es, start, end, q, V),
         q # <<>>, Head(q) \in V
  PROVE  BfsOk(N, es, start, end, Tail(q), V)
  <1>1. q \in Seq(N)
    BY DEF BfsOk
  <1>2. PICK t : t = Tail(q)
    OBVIOUS
  <1>3. PICK L : L = Len(q)
    OBVIOUS
  <1>4. /\ t \in Seq(N) /\ Len(t) = L - 1 /\ L \in Nat \ {0} /\ Head(q) = q[1]
        /\ \A j \in 1 .. L - 1 : t[j] = q[j + 1]
    BY ONLY <1>1, <1>2, <1>3, q # <<>>
  <1>5. ASSUME NEW x PROVE (\E j \in 1 .. L : q[j] = x) => x \in V \/ \E j \in 1 .. L - 1 : t[j] = x
    <2> SUFFICES ASSUME NEW j \in 1 .. L, q[j] = x PROVE x \in V \/ \E i \in 1 .. L - 1 : t[i] = x
      OBVIOUS
    <2>1. CASE j = 1
      BY <1>4, <2>1
    <2>2. CASE j # 1
      <3>1. j - 1 \in 1 .. L - 1 /\ (j - 1) + 1 = j
        BY ONLY <1>4, <2>2, j \in 1 .. L
      <3>2. t[j - 1] = x
        BY <1>4, <3>1
      <3> QED
        BY <3>1, <3>2
    <2> QED
      BY <2>1, <2>2
  <1>6. \A j \in 1 .. L - 1 : Reached(N, es, start, t[j])
    <2>1. \A j \in 1 .. L - 1 : j + 1 \in 1 .. L
      BY ONLY <1>4
    <2>2. \A j \in 1 .. L : Reached(N, es, start, q[j])
      BY <1>3 DEF BfsOk
    <2> QED
      BY ONLY <1>4, <2>1, <2>2
  <1>7. start \in V \/ \E j \in 1 .. L - 1 : t[j] = start
    BY <1>3, <1>5 DEF BfsOk
  <1>8. \A n \in V : \A k \in 1 .. Len(es[n]) : es[n][k].to \in V \/ \E j \in 1 .. L - 1 : t[j] = es[n][k].to
    BY <1>3, <1>5 DEF BfsOk
  <1> QED
    BY <1>2, <1>4, <1>6, <1>7, <1>8 DEF BfsOk

\* A new node: its targets are queued.
LEMMA BfsMore ==
  ASSUME NEW N, NEW es, NEW start, NEW end, NEW q, NEW V, BfsOk(N, es, start, end, q, V),
         q # <<>>, Head(q) # end, NEW targets \in Seq(N),
         Len(targets) = Len(es[Head(q)]), \A k \in 1 .. Len(targets) : targets[k] = es[Head(q)][k].to
  PROVE  BfsOk(N, es, start, end, Tail(q) \o targets, V \cup {Head(q)})
  <1>1. q \in Seq(N)
    BY DEF BfsOk
  <1>2. PICK h : h = Head(q)
    OBVIOUS
  <1>3. PICK L : L = Len(q)
    OBVIOUS
  <1>4. PICK K : K = Len(targets)
    OBVIOUS
  <1>5. PICK t : t = Tail(q) \o targets
    OBVIOUS
  <1>6. /\ L \in Nat \ {0} /\ K \in Nat /\ h = q[1] /\ h \in N
        /\ t \in Seq(N) /\ Len(t) = (L - 1) + K
        /\ \A j \in 1 .. L - 1 : t[j] = q[j + 1]
        /\ \A j \in 1 .. K : t[(L - 1) + j] = targets[j]
    <2>1. PICK u : u = Tail(q)
      OBVIOUS
    <2>2. /\ u \in Seq(N) /\ Len(u) = L - 1 /\ L \in Nat \ {0} /\ Head(q) = q[1] /\ q[1] \in N
          /\ \A j \in 1 .. L - 1 : u[j] = q[j + 1]
      BY ONLY <1>1, <1>3, <2>1, q # <<>>
    <2>3. t = u \o targets
      BY ONLY <1>5, <2>1
    <2>4. /\ t \in Seq(N) /\ Len(t) = (L - 1) + K /\ K \in Nat
          /\ \A j \in 1 .. L - 1 : t[j] = u[j]
          /\ \A j \in 1 .. K : t[(L - 1) + j] = targets[j]
      <3>1. K \in Nat /\ Len(u) \in Nat /\ Len(u) = L - 1 /\ Len(targets) = K
        BY ONLY <1>4, <2>2, targets \in Seq(N)
      <3>2. t \in Seq(N) /\ Len(t) = Len(u) + Len(targets)
        <4>1. u \in Seq(N)
          BY ONLY <2>2
        <4>2. u \o targets \in Seq(N) /\ Len(u \o targets) = Len(u) + Len(targets)
          BY ONLY <4>1, targets \in Seq(N)
        <4> QED
          BY ONLY <2>3, <4>2
      <3>3. \A j \in 1 .. Len(u) + Len(targets) : t[j] = IF j <= Len(u) THEN u[j] ELSE targets[j - Len(u)]
        BY ONLY <2>2, <2>3, targets \in Seq(N)
      <3>4. \A j \in 1 .. L - 1 : j \in 1 .. Len(u) + Len(targets) /\ j <= Len(u)
        BY ONLY <3>1
      <3>5. \A j \in 1 .. K : /\ (L - 1) + j \in 1 .. Len(u) + Len(targets) /\ ~ ((L - 1) + j <= Len(u))
                              /\ ((L - 1) + j) - Len(u) = j
        BY ONLY <3>1
      <3>6. \A j \in 1 .. L - 1 : t[j] = u[j]
        BY ONLY <3>3, <3>4
      <3>7. \A j \in 1 .. K : t[(L - 1) + j] = targets[j]
        BY ONLY <3>3, <3>5
      <3> QED
        BY ONLY <3>1, <3>2, <3>6, <3>7
    <2> QED
      BY ONLY <1>2, <2>2, <2>4
  <1>7. ASSUME NEW x, \E j \in 1 .. L : q[j] = x
        PROVE  x \in V \cup {h} \/ \E j \in 1 .. Len(t) : t[j] = x
    <2>1. PICK j \in 1 .. L : q[j] = x
      BY <1>7
    <2>2. CASE j = 1
      BY <1>6, <2>1, <2>2
    <2>3. CASE j # 1
      <3>1. j - 1 \in 1 .. L - 1 /\ (j - 1) + 1 = j /\ j - 1 \in 1 .. Len(t)
        BY ONLY <1>6, <2>3, j \in 1 .. L
      <3>2. t[j - 1] = x
        BY ONLY <1>6, <2>1, <3>1
      <3> QED
        BY <3>1, <3>2
    <2> QED
      BY <2>2, <2>3
  <1>8. ASSUME NEW k \in 1 .. Len(es[h]) PROVE \E j \in 1 .. Len(t) : t[j] = es[h][k].to
    <2>1. k \in 1 .. K /\ targets[k] = es[h][k].to
      BY <1>2, <1>4
    <2>2. (L - 1) + k \in 1 .. Len(t)
      BY ONLY <1>6, <2>1
    <2> QED
      BY ONLY <1>6, <2>1, <2>2
  <1>9. /\ V \subseteq N /\ end \notin V /\ (start \in V \/ \E j \in 1 .. L : q[j] = start)
        /\ \A n \in V : \A k \in 1 .. Len(es[n]) : es[n][k].to \in V \/ \E j \in 1 .. L : q[j] = es[n][k].to
        /\ \A n \in V : Reached(N, es, start, n)
        /\ \A j \in 1 .. L : Reached(N, es, start, q[j])
    BY <1>3 DEF BfsOk
  <1>10. Reached(N, es, start, h)
    BY <1>6, <1>9
  <1>11. \A j \in 1 .. Len(t) : Reached(N, es, start, t[j])
    <2> SUFFICES ASSUME NEW j \in 1 .. Len(t) PROVE Reached(N, es, start, t[j])
      OBVIOUS
    <2>1. CASE j \in 1 .. L - 1
      <3>1. t[j] = q[j + 1] /\ j + 1 \in 1 .. L
        BY ONLY <1>6, <2>1
      <3> QED
        BY ONLY <1>9, <3>1
    <2>2. CASE j \notin 1 .. L - 1
      <3>1. PICK k : k = j - (L - 1)
        OBVIOUS
      <3>2. k \in 1 .. K /\ (L - 1) + k = j
        BY ONLY <1>6, <2>2, <3>1, j \in 1 .. Len(t)
      <3>3. t[j] = es[h][k].to /\ k \in 1 .. Len(es[h])
        BY <1>2, <1>4, <1>6, <3>2
      <3> QED
        BY <1>10, <3>3 DEF Reached
    <2> QED
      BY <2>1, <2>2
  <1>12. start \in V \cup {h} \/ \E j \in 1 .. Len(t) : t[j] = start
    BY <1>7, <1>9
  <1>13. ASSUME NEW n \in V \cup {h}, NEW k \in 1 .. Len(es[n])
         PROVE  es[n][k].to \in V \cup {h} \/ \E j \in 1 .. Len(t) : t[j] = es[n][k].to
    BY <1>7, <1>8, <1>9
  <1>14. /\ V \cup {h} \subseteq N /\ end \notin V \cup {h}
         /\ \A n \in V \cup {h} : Reached(N, es, start, n)
    BY <1>2, <1>6, <1>9, <1>10
  <1>15. BfsOk(N, es, start, end, t, V \cup {h})
    BY ONLY <1>6, <1>11, <1>12, <1>13, <1>14 DEF BfsOk
  <1> QED
    BY ONLY <1>2, <1>5, <1>15

\* Nothing is left in the queue: the finish node was not met.
LEMMA BfsEmpty ==
  ASSUME NEW N, NEW es, NEW start, NEW end, NEW q, NEW V, BfsOk(N, es, start, end, q, V), q = <<>>
  PROVE  ~ Reached(N, es, start, end)
  <1>1. 1 .. Len(q) = {}
    OBVIOUS
  <1>2. V \in SUBSET N /\ start \in V /\ end \notin V /\ \A n \in V : \A k \in 1 .. Len(es[n]) : es[n][k].to \in V
    BY <1>1 DEF BfsOk
  <1> QED
    BY <1>2 DEF Reached

(***************************************************************************)
(* The graph of GraphTopology.                                             *)
(***************************************************************************)
\* GraphTopology counts as this module does.
LEMMA SameCounts == \A S : /\ Topology!IsFiniteSet(S) <=> IsFiniteSet(S)
                           /\ Topology!Cardinality(S) = Cardinality(S)
  <1>1. \A S : Topology!IsFiniteSet(S) <=> IsFiniteSet(S)
    BY Zenon DEF Topology!IsFiniteSet, IsFiniteSet
  <1>2. \A S : Topology!Cardinality(S) = Cardinality(S)
    BY Zenon DEF Topology!Cardinality, Cardinality
  <1> QED
    BY <1>1, <1>2

\* What the definitions of GraphTopology say of the numbered edges.
LEMMA TopologyIs ==
  ASSUME CompileTypes
  PROVE  /\ \A n : Topology!Out(n) = Outgoing(n) /\ Topology!In(n) = Incoming(n)
         /\ Topology!Acyclic <=>
              \A S \in (SUBSET nodes) \ {{}} :
                 /\ \E n \in S : \A i \in Outgoing(n) : numbered[i].to \notin S
                 /\ \E n \in S : \A i \in Incoming(n) : numbered[i].from \notin S
         /\ Topology!Reachable =
              {n \in nodes : \A S \in SUBSET nodes :
                 /\ entry \in S
                 /\ \A i \in 1 .. Len(numbered) : numbered[i].from \in S => numbered[i].to \in S
                 => n \in S}
  <1>1. PICK D : D = DOMAIN numbered
    OBVIOUS
  <1>2. D = 1 .. Len(numbered)
    BY <1>1 DEF CompileTypes
  <1>3. \A i \in D : /\ [j \in DOMAIN numbered |-> numbered[j].from][i] = numbered[i].from
                     /\ [j \in DOMAIN numbered |-> numbered[j].to][i] = numbered[i].to
    BY <1>1
  <1>4. \A n : Topology!Out(n) = Outgoing(n) /\ Topology!In(n) = Incoming(n)
    BY <1>1, <1>2, <1>3 DEF Topology!Out, Topology!In, Outgoing, Incoming
  <1>5. \A n : Outgoing(n) \subseteq D /\ Incoming(n) \subseteq D
    BY <1>2 DEF Outgoing, Incoming
  <1>6. Topology!Acyclic <=>
              \A S \in (SUBSET nodes) \ {{}} :
                 /\ \E n \in S : \A i \in Outgoing(n) : numbered[i].to \notin S
                 /\ \E n \in S : \A i \in Incoming(n) : numbered[i].from \notin S
    BY <1>3, <1>4, <1>5 DEF Topology!Acyclic
  <1>7. Topology!Reachable =
              {n \in nodes : \A S \in SUBSET nodes :
                 /\ entry \in S
                 /\ \A i \in 1 .. Len(numbered) : numbered[i].from \in S => numbered[i].to \in S
                 => n \in S}
    BY <1>1, <1>2, <1>3 DEF Topology!Reachable
  <1> QED
    BY <1>4, <1>6, <1>7

\* The numbered edges lead where the edges of the builder lead.
LEMMA LeadsIs ==
  ASSUME CompileTypes, Agreeing
  PROVE  /\ \A n, m \in Names :
              Leads(edges, n, m) <=> \E i \in 1 .. Len(numbered) : numbered[i].from = n /\ numbered[i].to = m
         /\ \A i \in 1 .. Len(numbered) : numbered[i].from \in Names /\ numbered[i].to \in Names
         /\ \A n \in Names : edges[n] \in Seq(Edge) /\ Len(edges[n]) \in Nat
         /\ \A n \in Names : \A k \in 1 .. Len(edges[n]) : edges[n][k].to \in Names
  <1>1. \A i \in 1 .. Len(numbered) : numbered[i] \in NumberedEdge
    BY DEF CompileTypes
  <1>2. \A i \in 1 .. Len(numbered) : numbered[i].from \in Names /\ numbered[i].to \in Names
    BY ONLY <1>1 DEF NumberedEdge
  <1>3. \A n \in Names : edges[n] \in Seq(Edge) /\ Len(edges[n]) \in Nat
    BY DEF CompileTypes
  <1>4. \A n \in Names : \A k \in 1 .. Len(edges[n]) : edges[n][k] \in Edge
    BY <1>3
  <1>5. \A n \in Names : \A k \in 1 .. Len(edges[n]) : edges[n][k].to \in Names
    BY ONLY <1>4 DEF Edge
  <1>6. ASSUME NEW n \in Names, NEW m \in Names, Leads(edges, n, m)
        PROVE  \E i \in 1 .. Len(numbered) : numbered[i].from = n /\ numbered[i].to = m
    BY <1>6 DEF Leads, Agreeing, Recorded
  <1>7. ASSUME NEW i \in 1 .. Len(numbered) PROVE Leads(edges, numbered[i].from, numbered[i].to)
    BY DEF Leads, Agreeing, Recorded
  <1> QED
    BY <1>2, <1>3, <1>5, <1>6, <1>7

\* Acyclic graphs.
LEMMA AcyclicIs ==
  ASSUME CompileTypes, Agreeing
  PROVE  Topology!Acyclic <=> NoCycle(edges, nodes)
  <1>1. nodes \subseteq Names
    BY DEF CompileTypes
  <1>2. ASSUME NEW S \in SUBSET nodes, NEW n \in S
        PROVE  (\A i \in Outgoing(n) : numbered[i].to \notin S) <=> \A m \in S : ~ Leads(edges, n, m)
    <2>1. n \in Names /\ \A m \in S : m \in Names
      BY <1>1
    <2>2. \A m \in S : Leads(edges, n, m) <=> \E i \in 1 .. Len(numbered) : numbered[i].from = n /\ numbered[i].to = m
      BY <2>1, LeadsIs
    <2>3. \A i : i \in Outgoing(n) <=> i \in 1 .. Len(numbered) /\ numbered[i].from = n
      BY DEF Outgoing
    <2> QED
      BY ONLY <2>2, <2>3
  <1>3. ASSUME NEW S \in SUBSET nodes, NEW n \in S
        PROVE  (\A i \in Incoming(n) : numbered[i].from \notin S) <=> \A m \in S : ~ Leads(edges, m, n)
    <2>1. n \in Names /\ \A m \in S : m \in Names
      BY <1>1
    <2>2. \A m \in S : Leads(edges, m, n) <=> \E i \in 1 .. Len(numbered) : numbered[i].from = m /\ numbered[i].to = n
      BY <2>1, LeadsIs
    <2>3. \A i : i \in Incoming(n) <=> i \in 1 .. Len(numbered) /\ numbered[i].to = n
      BY DEF Incoming
    <2> QED
      BY ONLY <2>2, <2>3
  <1>4. ASSUME NEW S \in SUBSET nodes
        PROVE  /\ (\E n \in S : \A i \in Outgoing(n) : numbered[i].to \notin S)
                    <=> (\E n \in S : \A m \in S : ~ Leads(edges, n, m))
               /\ (\E n \in S : \A i \in Incoming(n) : numbered[i].from \notin S)
                    <=> (\E n \in S : \A m \in S : ~ Leads(edges, m, n))
    <2>1. \A n \in S : (\A i \in Outgoing(n) : numbered[i].to \notin S) <=> \A m \in S : ~ Leads(edges, n, m)
      BY <1>2
    <2>2. \A n \in S : (\A i \in Incoming(n) : numbered[i].from \notin S) <=> \A m \in S : ~ Leads(edges, m, n)
      BY <1>3
    <2> QED
      BY ONLY <2>1, <2>2
  <1>5. NoCycle(edges, nodes) <=>
              \A S \in SUBSET nodes : S # {} =>
                 /\ \E n \in S : \A i \in Outgoing(n) : numbered[i].to \notin S
                 /\ \E n \in S : \A i \in Incoming(n) : numbered[i].from \notin S
    BY ONLY <1>4 DEF NoCycle
  <1>6. NoCycle(edges, nodes) <=>
              \A S \in (SUBSET nodes) \ {{}} :
                 /\ \E n \in S : \A i \in Outgoing(n) : numbered[i].to \notin S
                 /\ \E n \in S : \A i \in Incoming(n) : numbered[i].from \notin S
    BY ONLY <1>5, Zenon
  <1> QED
    BY <1>6, TopologyIs

\* Sets that no edge leaves.
LEMMA ClosedIs ==
  ASSUME CompileTypes, Agreeing, NEW S \in SUBSET nodes
  PROVE  (\A i \in 1 .. Len(numbered) : numbered[i].from \in S => numbered[i].to \in S)
         <=> \A m \in S : \A k \in 1 .. Len(edges[m]) : edges[m][k].to \in S
  <1>1. S \subseteq Names
    BY DEF CompileTypes
  <1>2. ASSUME \A i \in 1 .. Len(numbered) : numbered[i].from \in S => numbered[i].to \in S,
               NEW m \in S, NEW k \in 1 .. Len(edges[m])
        PROVE  edges[m][k].to \in S
    <2>1. Leads(edges, m, edges[m][k].to) /\ edges[m][k].to \in Names
      BY <1>1, LeadsIs DEF Leads
    <2> QED
      BY <1>1, <1>2, <2>1, LeadsIs
  <1>3. ASSUME \A m \in S : \A k \in 1 .. Len(edges[m]) : edges[m][k].to \in S,
               NEW i \in 1 .. Len(numbered), numbered[i].from \in S
        PROVE  numbered[i].to \in S
    <2>1. Leads(edges, numbered[i].from, numbered[i].to)
      BY LeadsIs
    <2> QED
      BY <1>3, <2>1 DEF Leads
  <1> QED
    BY <1>2, <1>3

\* The nodes that the entry reaches.
LEMMA ReachableIs ==
  ASSUME CompileTypes, Agreeing
  PROVE  \A n \in nodes : n \in Topology!Reachable <=> Reached(nodes, edges, entry, n)
  BY TopologyIs, ClosedIs DEF Reached

\* Nodes without numbered edges are nodes without edges.
LEMMA NoOutIs ==
  ASSUME CompileTypes, Agreeing
  PROVE  \A n \in Names : /\ Outgoing(n) = {} <=> edges[n] = <<>>
                          /\ Topology!Out(n) = Outgoing(n) /\ Cardinality(Topology!Out(n)) = Len(edges[n])
  <1> SUFFICES ASSUME NEW n \in Names
               PROVE  /\ Outgoing(n) = {} <=> edges[n] = <<>>
                      /\ Topology!Out(n) = Outgoing(n) /\ Cardinality(Topology!Out(n)) = Len(edges[n])
    OBVIOUS
  <1>1. Topology!Out(n) = Outgoing(n)
    BY TopologyIs
  <1>2. Cardinality(Outgoing(n)) = Len(edges[n])
    BY DEF Agreeing
  <1>3. Len(numbered) \in Nat /\ edges[n] \in Seq(Edge)
    BY DEF CompileTypes
  <1>4. IsFiniteSet(Outgoing(n))
    <2>1. IsFiniteSet(1 .. Len(numbered))
      BY <1>3, FS_Interval
    <2> QED
      BY <2>1, FS_Subset DEF Outgoing
  <1>5. Cardinality(Outgoing(n)) = 0 <=> Outgoing(n) = {}
    BY <1>4, FS_EmptySet
  <1>6. Len(edges[n]) = 0 <=> edges[n] = <<>>
    BY <1>3
  <1> QED
    BY <1>1, <1>2, <1>5, <1>6

\* The edges that NewExecutor counts.
LEMMA IntoIs ==
  ASSUME CompileTypes, NEW n
  PROVE  EdgesInto(n) = Into(edges, n)
  <1>1. \A m \in Names : Len(edges[m]) \in Nat /\ DOMAIN edges[m] = 1 .. Len(edges[m])
    BY DEF CompileTypes
  <1>2. ASSUME NEW x \in EdgesInto(n) PROVE x \in Into(edges, n)
    <2>1. PICK m \in Names : x \in {m} \X {i \in DOMAIN edges[m] : edges[m][i].to = n}
      BY DEF EdgesInto
    <2>2. x = <<m, x[2]>> /\ x[1] = m /\ x[2] \in 1 .. Len(edges[m]) /\ edges[m][x[2]].to = n
      BY <1>1, <2>1
    <2>3. x[2] \in Nat
      BY <1>1, <2>2
    <2>4. x \in Names \X Nat
      BY <2>2, <2>3
    <2> QED
      BY <2>2, <2>4 DEF Into
  <1>3. ASSUME NEW x \in Into(edges, n) PROVE x \in EdgesInto(n)
    <2>1. x \in Names \X Nat /\ x[2] \in 1 .. Len(edges[x[1]]) /\ edges[x[1]][x[2]].to = n
      BY DEF Into
    <2>2. x = <<x[1], x[2]>> /\ x[1] \in Names
      BY <2>1
    <2>3. x \in {x[1]} \X {i \in DOMAIN edges[x[1]] : edges[x[1]][i].to = n}
      BY <1>1, <2>1, <2>2
    <2> QED
      BY <2>2, <2>3 DEF EdgesInto
  <1> QED
    BY <1>2, <1>3

\* A verdict is right.
LEMMA JudgedExact ==
  ASSUME CompileTypes, Agreeing, Judged
  PROVE  CompileExact
  <1>1. DOMAIN numbered = 1 .. Len(numbered) /\ Len(numbered) \in Nat /\ nodes \subseteq Names
    BY DEF CompileTypes
  <1>2. ASSUME verdict = "ok"
        PROVE  Topology!WellFormed /\ \A n \in nodes : edges[n] = <<>> <=> n = finish
    <2>1. PointsKnown /\ EdgesKnown /\ NoCycle(edges, nodes) /\ ~ FinishHasEdges /\ ~ DeadEnd
      BY <1>2 DEF Judged
    <2>2. \A n \in nodes : edges[n] = <<>> <=> n = finish
      BY <2>1 DEF FinishHasEdges, DeadEnd
    <2>3. \A n \in nodes : (Topology!Out(n) = {}) <=> (n = finish)
      BY <1>1, <2>2, NoOutIs
    <2>4. ASSUME NEW i \in 1 .. Len(numbered) PROVE numbered[i].from \in nodes /\ numbered[i].to \in nodes
      <3>1. PICK k \in 1 .. Len(edges[numbered[i].from]) :
              Recorded(numbered[i], numbered[i].from, edges[numbered[i].from][k])
        BY DEF Agreeing
      <3>2. numbered[i].from \in Names /\ edges[numbered[i].from] \in Seq(Edge)
        BY LeadsIs
      <3>3. edges[numbered[i].from] # <<>> /\ k \in DOMAIN edges[numbered[i].from]
        BY <3>2
      <3>4. edges[numbered[i].from][k].to = numbered[i].to
        BY <3>1 DEF Recorded
      <3> QED
        BY <2>1, <3>2, <3>3, <3>4 DEF EdgesKnown
    <2>5. /\ [i \in DOMAIN numbered |-> numbered[i].from] \in [DOMAIN numbered -> nodes]
          /\ [i \in DOMAIN numbered |-> numbered[i].to] \in [DOMAIN numbered -> nodes]
      BY <1>1, <2>4
    <2>6. DOMAIN numbered \subseteq Nat /\ IsFiniteSet(DOMAIN numbered)
      <3>1. IsFiniteSet(1 .. Len(numbered))
        BY <1>1, FS_Interval
      <3> QED
        BY <1>1, <3>1
    <2>7. Topology!Acyclic
      BY <2>1, AcyclicIs
    <2>8. IsFiniteSet(nodes) /\ entry \in nodes /\ finish \in nodes
      BY <2>1 DEF CompileTypes, PointsKnown
    <2>9. {n \in nodes : \E i \in DOMAIN numbered : numbered[i].from = n /\ numbered[i].conditional} \subseteq nodes
      OBVIOUS
    <2>10. Topology!WellFormed
      BY <2>3, <2>5, <2>6, <2>7, <2>8, <2>9, SameCounts DEF Topology!WellFormed
    <2> QED
      BY <2>2, <2>10
  <1>3. ASSUME verdict = "ok" PROVE finish \in Topology!Reachable
    <2>1. PointsKnown /\ Reached(nodes, edges, entry, finish)
      BY <1>3 DEF Judged
    <2> QED
      BY <2>1, ReachableIs DEF PointsKnown
  <1>4. ASSUME NEW i \in 1 .. Len(numbered)
        PROVE  /\ numbered[i].from \in Names /\ numbered[i].conditional \in BOOLEAN
               /\ \E k \in DOMAIN edges[numbered[i].from] :
                    edges[numbered[i].from][k].conditional = numbered[i].conditional
    <2>1. numbered[i] \in NumberedEdge
      BY DEF CompileTypes
    <2>2. numbered[i].from \in Names /\ numbered[i].conditional \in BOOLEAN
      BY ONLY <2>1 DEF NumberedEdge
    <2>3. edges[numbered[i].from] \in Seq(Edge)
      BY <2>2, LeadsIs
    <2>4. DOMAIN edges[numbered[i].from] = 1 .. Len(edges[numbered[i].from])
      BY ONLY <2>3
    <2>5. \E k \in 1 .. Len(edges[numbered[i].from]) :
            Recorded(numbered[i], numbered[i].from, edges[numbered[i].from][k])
      BY DEF Agreeing
    <2> QED
      BY <2>2, <2>4, <2>5 DEF Recorded
  <1>5. ASSUME ~ Mixed PROVE Uniform
    <2> SUFFICES ASSUME NEW i \in 1 .. Len(numbered), NEW j \in 1 .. Len(numbered),
                        numbered[i].from = numbered[j].from
                 PROVE  numbered[i].conditional = numbered[j].conditional
      BY <1>1 DEF Uniform
    <2> QED
      BY <1>4, <1>5 DEF Mixed
  <1>6. ASSUME Mixed PROVE ~ Uniform
    <2>1. PICK n \in Names : \E k, l \in DOMAIN edges[n] : edges[n][k].conditional /\ ~ edges[n][l].conditional
      BY <1>6 DEF Mixed
    <2>2. PICK k \in DOMAIN edges[n], l \in DOMAIN edges[n] : edges[n][k].conditional /\ ~ edges[n][l].conditional
      BY <2>1
    <2>3. DOMAIN edges[n] = 1 .. Len(edges[n])
      BY LeadsIs
    <2>4. PICK i \in 1 .. Len(numbered) : Recorded(numbered[i], n, edges[n][k])
      BY <2>3 DEF Agreeing
    <2>5. PICK j \in 1 .. Len(numbered) : Recorded(numbered[j], n, edges[n][l])
      BY <2>3 DEF Agreeing
    <2> QED
      BY <1>1, <2>2, <2>4, <2>5 DEF Recorded, Uniform
  <1>7. ASSUME verdict = "ok", NEW n \in nodes
        PROVE  /\ infos[n].dependencies = Topology!dependencies(n)
               /\ Len(infos[n].outEdges) = Cardinality(Topology!Out(n))
    <2>1. infos = NodeInfos
      BY <1>7 DEF Judged
    <2>2. infos[n].outEdges = edges[n] /\ infos[n].dependencies = Cardinality(EdgesInto(n))
      BY <2>1 DEF NodeInfos
    <2>3. Topology!In(n) = Incoming(n) /\ n \in Names
      BY <1>1, TopologyIs
    <2>4. Cardinality(EdgesInto(n)) = Cardinality(Incoming(n))
      BY <2>3, IntoIs DEF Agreeing
    <2>5. Topology!dependencies(n) = Cardinality(Incoming(n))
      BY <2>3, SameCounts DEF Topology!dependencies
    <2> QED
      BY <2>2, <2>3, <2>4, <2>5, NoOutIs
  <1>8. ASSUME verdict \in {"finish has edges", "dead end"}
        PROVE  \E n \in nodes : (Topology!Out(n) = {}) # (n = finish)
    <2>1. CASE verdict = "finish has edges"
      <3>1. finish \in nodes /\ edges[finish] # <<>>
        BY <2>1 DEF Judged, FinishHasEdges
      <3>2. ~ (Topology!Out(finish) = {})
        BY <1>1, <3>1, NoOutIs
      <3> QED
        BY <3>1, <3>2
    <2>2. CASE verdict = "dead end"
      <3>1. PICK n \in nodes \ {finish} : edges[n] = <<>>
        BY <2>2 DEF Judged, DeadEnd
      <3>2. Topology!Out(n) = {}
        BY <1>1, <3>1, NoOutIs
      <3> QED
        BY <3>1, <3>2
    <2> QED
      BY <1>8, <2>1, <2>2
  <1>9. ASSUME verdict = "ok", NEW S \in SUBSET nodes, S # {},
               \A i \in DOMAIN numbered : numbered[i].from \in S => numbered[i].to \in S
        PROVE  finish \in S
    <2>1. NoCycle(edges, nodes)
      BY <1>9 DEF Judged
    <2>2. PICK n \in S : \A m \in S : ~ Leads(edges, n, m)
      BY <1>9, <2>1 DEF NoCycle
    <2>3. \A k \in 1 .. Len(edges[n]) : edges[n][k].to \in S
      BY <1>1, <1>9, ClosedIs
    <2>4. \A k \in 1 .. Len(edges[n]) : FALSE
      BY <2>2, <2>3 DEF Leads
    <2>5. edges[n] \in Seq(Edge) /\ n \in nodes
      BY <1>1, LeadsIs
    <2>6. edges[n] = <<>>
      BY ONLY <2>4, <2>5
    <2> QED
      BY <1>2, <1>9, <2>5, <2>6
  <1>10. verdict = "cycle" => ~ Topology!Acyclic
    BY AcyclicIs DEF Judged
  <1>11. ASSUME verdict = "unreachable" PROVE finish \notin Topology!Reachable
    <2>1. ~ Reached(nodes, edges, entry, finish)
      BY <1>11 DEF Judged
    <2>2. finish \in Topology!Reachable => finish \in nodes
      BY TopologyIs
    <2> QED
      BY <2>1, <2>2, ReachableIs
  <1>12. verdict = "mixed" => ~ Uniform
    BY <1>6 DEF Judged
  <1>13. verdict = "ok" => Uniform
    BY <1>5 DEF Judged
  <1> QED
    BY <1>2, <1>3, <1>7, <1>8, <1>9, <1>10, <1>11, <1>12, <1>13, Zenon DEF CompileExact

-----------------------------------------------------------------------------
(***************************************************************************)
(* The builder.                                                            *)
(***************************************************************************)
\* Nothing is built yet.
LEMMA CompileStarts ==
  ASSUME Init
  PROVE  CompileInv
  <1>1. /\ nodes = {} /\ edges = [n \in Names |-> <<>>] /\ numbered = <<>> /\ entry = Unset /\ finish = Unset
        /\ phase = "build" /\ states = Unvisited /\ stack = <<>> /\ queue = <<>> /\ seen = {} /\ verdict = "none"
    BY DEF Init
  <1>2. CompileTypes
    <2>1. states \in [Names -> Colours]
      BY ONLY <1>1 DEF Unvisited, Colours
    <2>2. IsFiniteSet({}) /\ {} \in SUBSET Names
      BY FS_EmptySet
    <2>3. edges \in [Names -> Seq(Edge)] /\ numbered \in Seq(NumberedEdge)
      BY ONLY <1>1
    <2> QED
      BY <1>1, <2>1, <2>2, <2>3 DEF CompileTypes
  <1>3. 1 .. Len(numbered) = {} /\ \A n \in Names : edges[n] = <<>> /\ Len(edges[n]) = 0 /\ 1 .. Len(edges[n]) = {}
    BY ONLY <1>1
  <1>4. \A n \in Names : Outgoing(n) = {} /\ Incoming(n) = {} /\ Into(edges, n) = {}
    BY ONLY <1>3 DEF Outgoing, Incoming, Into
  <1>5. Agreeing
    BY ONLY <1>3, <1>4, FS_EmptySet DEF Agreeing
  <1>6. Searching
    BY ONLY <1>1, Zenon DEF Searching
  <1>7. Judged
    BY ONLY <1>1, Zenon DEF Judged
  <1> QED
    BY <1>2, <1>5, <1>6, <1>7 DEF CompileInv

\* A call of the builder: no search is under way, and the verdict is gone.
LEMMA BuildStep ==
  ASSUME CompileInv, phase = "build", phase' = phase, UNCHANGED search, verdict' = "none"
  PROVE  Searching' /\ Judged'
  <1>1. states = Unvisited /\ stack = <<>> /\ queue = <<>> /\ seen = {}
    BY Zenon DEF CompileInv, Searching
  <1>2. phase' = "build" /\ states' = Unvisited /\ stack' = <<>> /\ queue' = <<>> /\ seen' = {}
    BY <1>1 DEF search
  <1>3. Searching'
    BY ONLY <1>2, Zenon DEF Searching, Unvisited
  <1>4. Judged'
    BY ONLY verdict' = "none", Zenon DEF Judged
  <1> QED
    BY <1>3, <1>4

\* AddNode, SetEntryPoint and SetFinishPoint.
LEMMA NodeStep ==
  ASSUME CompileInv, NEW n \in Names, AddNode(n) \/ SetEntryPoint(n) \/ SetFinishPoint(n)
  PROVE  CompileInv'
  <1>1. /\ phase = "build" /\ phase' = phase /\ UNCHANGED search /\ verdict' = "none"
        /\ edges' = edges /\ numbered' = numbered
    BY DEF AddNode, SetEntryPoint, SetFinishPoint
  <1>2. Searching' /\ Judged'
    BY <1>1, BuildStep
  <1>3. /\ nodes' = nodes \cup {n} \/ nodes' = nodes
        /\ entry' \in {n, entry} /\ finish' \in {n, finish} /\ states' = states
    BY DEF AddNode, SetEntryPoint, SetFinishPoint, search
  <1>4. CompileTypes /\ Agreeing
    BY DEF CompileInv
  <1>5. IsFiniteSet(nodes')
    <2>1. IsFiniteSet(nodes)
      BY <1>4 DEF CompileTypes
    <2>2. IsFiniteSet(nodes \cup {n})
      BY ONLY <2>1, FS_AddElement
    <2> QED
      BY ONLY <1>3, <2>1, <2>2
  <1>6. CompileTypes'
    BY <1>1, <1>3, <1>4, <1>5 DEF CompileTypes
  <1>7. Agreeing'
    BY <1>1, <1>4 DEF Agreeing, Outgoing, Incoming
  <1> QED
    BY <1>2, <1>6, <1>7 DEF CompileInv

\* es2 has one edge more than es, from n.
OneMoreEdge(es, n, e, es2) ==
  /\ \A m \in Names : m # e.to => Into(es2, m) = Into(es, m)
  /\ Into(es2, e.to) = Into(es, e.to) \cup {<<n, Len(es[n]) + 1>>}
  /\ <<n, Len(es[n]) + 1>> \notin Into(es, e.to)
  /\ es2 \in [Names -> Seq(Edge)] /\ Len(es2[n]) = Len(es[n]) + 1 /\ es2[n][Len(es[n]) + 1] = e
  /\ \A k \in 1 .. Len(es[n]) : es2[n][k] = es[n][k]
  /\ \A m \in Names : m # n => es2[m] = es[m]

\* One edge more is one edge more into its target.
LEMMA IntoMore ==
  ASSUME NEW es \in [Names -> Seq(Edge)], NEW n \in Names, NEW e \in Edge
  PROVE  OneMoreEdge(es, n, e, [es EXCEPT ![n] = Append(es[n], e)])
  <1>0. PICK es2 : es2 = [es EXCEPT ![n] = Append(es[n], e)]
    OBVIOUS
  <1>1. PICK L : L = Len(es[n])
    OBVIOUS
  <1>2. PICK a : a = Append(es[n], e)
    OBVIOUS
  <1>3. es[n] \in Seq(Edge)
    OBVIOUS
  <1>4. L \in Nat /\ a \in Seq(Edge) /\ Len(a) = L + 1 /\ a[L + 1] = e /\ \A k \in 1 .. L : a[k] = es[n][k]
    BY ONLY <1>1, <1>2, <1>3, e \in Edge
  <1>5. es2 \in [Names -> Seq(Edge)] /\ es2[n] = a /\ \A m \in Names : m # n => es2[m] = es[m]
    BY <1>0, <1>2, <1>4
  <1>6. \A k \in Nat : k \in 1 .. L + 1 <=> k \in 1 .. L \/ k = L + 1
    BY ONLY <1>4
  <1>7. L + 1 \notin 1 .. L /\ L + 1 \in Nat
    BY ONLY <1>4
  <1>8. ASSUME NEW x \in Names \X Nat, NEW m
        PROVE  x \in Into(es2, m) <=> x \in Into(es, m) \/ (x = <<n, L + 1>> /\ m = e.to)
    <2>1. x[1] \in Names /\ x[2] \in Nat /\ x = <<x[1], x[2]>>
      OBVIOUS
    <2>2. CASE x[1] # n
      <3>1. es2[x[1]] = es[x[1]] /\ x # <<n, L + 1>>
        BY <1>5, <2>1, <2>2
      <3> QED
        BY <3>1 DEF Into
    <2>3. CASE x[1] = n
      <3>1. x \in Into(es2, m) <=> x[2] \in 1 .. L + 1 /\ a[x[2]].to = m
        BY <1>4, <1>5, <2>3 DEF Into
      <3>2. x \in Into(es, m) <=> x[2] \in 1 .. L /\ es[n][x[2]].to = m
        BY <1>1, <2>3 DEF Into
      <3>3. x = <<n, L + 1>> <=> x[2] = L + 1
        BY <2>1, <2>3
      <3> QED
        BY ONLY <1>4, <1>6, <1>7, <2>1, <3>1, <3>2, <3>3
    <2> QED
      BY <2>2, <2>3
  <1>9. \A m : Into(es2, m) \subseteq Names \X Nat /\ Into(es, m) \subseteq Names \X Nat
    BY DEF Into
  <1>10. <<n, L + 1>> \in Names \X Nat
    BY <1>7
  <1>11. ASSUME NEW m \in Names, m # e.to PROVE Into(es2, m) = Into(es, m)
    <2>1. \A x \in Names \X Nat : x \in Into(es2, m) <=> x \in Into(es, m)
      BY <1>8, <1>11
    <2> QED
      BY ONLY <1>9, <2>1
  <1>12. Into(es2, e.to) = Into(es, e.to) \cup {<<n, L + 1>>}
    BY <1>8, <1>9, <1>10
  <1>13. <<n, L + 1>> \notin Into(es, e.to)
    BY <1>1, <1>7 DEF Into
  <1> QED
    BY ONLY <1>0, <1>1, <1>4, <1>5, <1>11, <1>12, <1>13 DEF OneMoreEdge

\* AddEdge: both records of the edges, and both counts, grow by one.
LEMMA EdgeStep ==
  ASSUME CompileInv, NEW from \in Names, NEW e \in Edge, AddEdge(from, e)
  PROVE  CompileInv'
  <1>1. /\ phase = "build" /\ phase' = phase /\ UNCHANGED search /\ verdict' = "none"
        /\ nodes' = nodes /\ entry' = entry /\ finish' = finish
        /\ edges' = [edges EXCEPT ![from] = Append(edges[from], e)]
        /\ numbered' = Append(numbered, [from |-> from, to |-> e.to, conditional |-> e.conditional])
    BY DEF AddEdge
  <1>2. Searching' /\ Judged'
    BY <1>1, BuildStep
  <1>3. CompileTypes /\ Agreeing
    BY DEF CompileInv
  <1>4. edges \in [Names -> Seq(Edge)] /\ numbered \in Seq(NumberedEdge)
    BY <1>3 DEF CompileTypes
  <1>5. PICK r : r = [from |-> from, to |-> e.to, conditional |-> e.conditional]
    OBVIOUS
  <1>6. r \in NumberedEdge /\ r.from = from /\ r.to = e.to /\ r.conditional = e.conditional /\ e.to \in Names
    BY <1>5 DEF NumberedEdge, Edge
  <1>7. PICK N : N = Len(numbered)
    OBVIOUS
  <1>8. /\ numbered' \in Seq(NumberedEdge) /\ Len(numbered') = N + 1 /\ numbered'[N + 1] = r /\ N \in Nat
        /\ \A i \in 1 .. N : numbered'[i] = numbered[i]
    <2>1. numbered' = Append(numbered, r)
      BY ONLY <1>1, <1>5
    <2> QED
      BY ONLY <1>4, <1>6, <1>7, <2>1
  <1>9. \A i : i \in 1 .. N + 1 <=> i \in 1 .. N \/ i = N + 1
    BY ONLY <1>8
  <1>10. N + 1 \notin 1 .. N
    BY ONLY <1>8
  <1>11. PICK L : L = Len(edges[from])
    OBVIOUS
  <1>12. /\ \A m \in Names : m # e.to => Into(edges', m) = Into(edges, m)
         /\ Into(edges', e.to) = Into(edges, e.to) \cup {<<from, L + 1>>}
         /\ <<from, L + 1>> \notin Into(edges, e.to)
         /\ edges' \in [Names -> Seq(Edge)] /\ Len(edges'[from]) = L + 1 /\ edges'[from][L + 1] = e
         /\ \A k \in 1 .. L : edges'[from][k] = edges[from][k]
         /\ \A m \in Names : m # from => edges'[m] = edges[m]
    <2>1. OneMoreEdge(edges, from, e, [edges EXCEPT ![from] = Append(edges[from], e)])
      BY ONLY <1>4, IntoMore, from \in Names, e \in Edge
    <2>2. OneMoreEdge(edges, from, e, edges')
      BY ONLY <1>1, <2>1
    <2> QED
      BY ONLY <1>11, <2>2 DEF OneMoreEdge
  <1>13. L \in Nat /\ \A k : k \in 1 .. L + 1 <=> k \in 1 .. L \/ k = L + 1
    <2>1. edges[from] \in Seq(Edge)
      BY <1>4
    <2>2. L \in Nat
      BY ONLY <1>11, <2>1
    <2> QED
      BY ONLY <2>2
  <1>14. CompileTypes'
    BY <1>1, <1>3, <1>8, <1>12 DEF CompileTypes, search
  <1>15. /\ \A m \in Names : m # from => Outgoing(m)' = Outgoing(m)
         /\ Outgoing(from)' = Outgoing(from) \cup {N + 1} /\ N + 1 \notin Outgoing(from)
         /\ \A m \in Names : m # e.to => Incoming(m)' = Incoming(m)
         /\ Incoming(e.to)' = Incoming(e.to) \cup {N + 1} /\ N + 1 \notin Incoming(e.to)
    <2>1. ASSUME NEW m \in Names, m # from PROVE Outgoing(m)' = Outgoing(m)
      BY <1>6, <1>7, <1>8, <1>9, <2>1 DEF Outgoing
    <2>2. Outgoing(from)' = Outgoing(from) \cup {N + 1} /\ N + 1 \notin Outgoing(from)
      BY <1>6, <1>7, <1>8, <1>9, <1>10 DEF Outgoing
    <2>3. ASSUME NEW m \in Names, m # e.to PROVE Incoming(m)' = Incoming(m)
      BY <1>6, <1>7, <1>8, <1>9, <2>3 DEF Incoming
    <2>4. Incoming(e.to)' = Incoming(e.to) \cup {N + 1} /\ N + 1 \notin Incoming(e.to)
      BY <1>6, <1>7, <1>8, <1>9, <1>10 DEF Incoming
    <2> QED
      BY <2>1, <2>2, <2>3, <2>4
  <1>16. \A m \in Names : IsFiniteSet(Outgoing(m)) /\ IsFiniteSet(Incoming(m))
    <2>1. IsFiniteSet(1 .. N)
      BY ONLY <1>8, FS_Interval
    <2>2. \A m : Outgoing(m) \subseteq 1 .. N /\ Incoming(m) \subseteq 1 .. N
      BY <1>7 DEF Outgoing, Incoming
    <2> QED
      BY ONLY <2>1, <2>2, FS_Subset
  <1>17. \A m \in Names : /\ Cardinality(Outgoing(m)) = Len(edges[m])
                          /\ IsFiniteSet(Into(edges, m)) /\ Cardinality(Into(edges, m)) = Cardinality(Incoming(m))
    BY <1>3 DEF Agreeing
  <1>18. ASSUME NEW m \in Names PROVE Cardinality(Outgoing(m)') = Len(edges'[m])
    <2>1. CASE m = from
      <3>1. Cardinality(Outgoing(from) \cup {N + 1}) = Cardinality(Outgoing(from)) + 1
        BY ONLY <1>15, <1>16, FS_AddElement, from \in Names
      <3> QED
        BY ONLY <1>11, <1>12, <1>15, <1>17, <2>1, <3>1, from \in Names
    <2>2. CASE m # from
      BY <1>12, <1>15, <1>17, <2>2
    <2> QED
      BY <2>1, <2>2
  <1>19. ASSUME NEW m \in Names
         PROVE  IsFiniteSet(Into(edges', m)) /\ Cardinality(Into(edges', m)) = Cardinality(Incoming(m)')
    <2>1. CASE m = e.to
      <3>1. Cardinality(Incoming(m) \cup {N + 1}) = Cardinality(Incoming(m)) + 1
        BY ONLY <1>15, <1>16, <2>1, FS_AddElement, m \in Names
      <3>2. /\ Cardinality(Into(edges, m) \cup {<<from, L + 1>>}) = Cardinality(Into(edges, m)) + 1
            /\ IsFiniteSet(Into(edges, m) \cup {<<from, L + 1>>})
        BY ONLY <1>12, <1>17, <2>1, FS_AddElement, m \in Names
      <3> QED
        BY ONLY <1>12, <1>15, <1>17, <2>1, <3>1, <3>2, m \in Names
    <2>2. CASE m # e.to
      BY <1>12, <1>15, <1>17, <2>2
    <2> QED
      BY <2>1, <2>2
  <1>20. ASSUME NEW m \in Names, NEW k \in 1 .. Len(edges'[m])
         PROVE  \E i \in 1 .. N + 1 : Recorded(numbered'[i], m, edges'[m][k])
    <2>1. \A q \in Names : \A l \in 1 .. Len(edges[q]) : \E i \in 1 .. N : Recorded(numbered[i], q, edges[q][l])
      BY <1>3, <1>7 DEF Agreeing
    <2>2. CASE m = from /\ k = L + 1
      <3>1. Recorded(r, from, e)
        BY <1>6 DEF Recorded
      <3>2. N + 1 \in 1 .. N + 1
        BY ONLY <1>8
      <3> QED
        BY ONLY <1>8, <1>12, <2>2, <3>1, <3>2
    <2>3. CASE ~ (m = from /\ k = L + 1)
      <3>1. k \in 1 .. Len(edges[m]) /\ edges'[m][k] = edges[m][k]
        BY <1>11, <1>12, <1>13, <2>3
      <3>2. PICK i \in 1 .. N : Recorded(numbered[i], m, edges[m][k])
        BY <2>1, <3>1
      <3> QED
        BY <1>8, <1>9, <3>1, <3>2
    <2> QED
      BY <2>2, <2>3
  <1>21. ASSUME NEW i \in 1 .. N + 1
         PROVE  \E k \in 1 .. Len(edges'[numbered'[i].from]) :
                  Recorded(numbered'[i], numbered'[i].from, edges'[numbered'[i].from][k])
    <2>1. CASE i = N + 1
      <3>1. Recorded(r, from, e) /\ L + 1 \in 1 .. L + 1
        BY <1>6, <1>13 DEF Recorded
      <3>2. numbered'[i] = r
        BY ONLY <1>8, <2>1
      <3> QED
        BY ONLY <1>6, <1>12, <3>1, <3>2
    <2>2. CASE i # N + 1
      <3>1. i \in 1 .. N /\ numbered'[i] = numbered[i]
        BY <1>8, <1>9, <2>2
      <3>2. PICK m : m = numbered[i].from
        OBVIOUS
      <3>3. PICK k \in 1 .. Len(edges[m]) : Recorded(numbered[i], m, edges[m][k])
        BY <1>3, <1>7, <3>1, <3>2 DEF Agreeing
      <3>4. m \in Names
        BY <1>3, <1>7, <3>1, <3>2, LeadsIs
      <3>5. k \in 1 .. Len(edges'[m]) /\ edges'[m][k] = edges[m][k]
        <4>1. CASE m = from
          BY <1>11, <1>12, <1>13, <4>1
        <4>2. CASE m # from
          BY <1>12, <3>4, <4>2
        <4> QED
          BY <4>1, <4>2
      <3> QED
        BY <3>1, <3>2, <3>3, <3>5
    <2> QED
      BY <2>1, <2>2
  <1>22. Agreeing'
    BY ONLY <1>8, <1>18, <1>19, <1>20, <1>21 DEF Agreeing
  <1> QED
    BY <1>2, <1>14, <1>22 DEF CompileInv

-----------------------------------------------------------------------------
(***************************************************************************)
(* The steps of Compile.                                                   *)
(***************************************************************************)
\* Compile does not change the graph.
LEMMA GraphFrame ==
  ASSUME CompileInv, UNCHANGED graph, states' \in [Names -> Colours]
  PROVE  CompileTypes' /\ Agreeing'
  <1>1. nodes' = nodes /\ edges' = edges /\ numbered' = numbered /\ entry' = entry /\ finish' = finish
    BY DEF graph
  <1>2. CompileTypes /\ Agreeing
    BY DEF CompileInv
  <1>3. CompileTypes'
    BY <1>1, <1>2 DEF CompileTypes
  <1>4. Agreeing'
    BY ONLY <1>1, <1>2 DEF Agreeing, Outgoing, Incoming
  <1> QED
    BY <1>3, <1>4

\* Compile returns.
LEMMA ReturnsStep ==
  ASSUME CompileInv, NEW result, Returns(result)
  PROVE  CompileTypes' /\ Agreeing' /\ Searching' /\ verdict' = result /\ UNCHANGED graph
  <1>1. /\ phase' = "build" /\ states' = Unvisited /\ stack' = <<>> /\ queue' = <<>> /\ seen' = {}
        /\ verdict' = result /\ UNCHANGED graph
    BY DEF Returns
  <1>2. states' \in [Names -> Colours]
    BY ONLY <1>1 DEF Unvisited, Colours
  <1>3. Searching'
    BY ONLY <1>1, Zenon DEF Searching, Unvisited
  <1> QED
    BY <1>1, <1>2, <1>3, GraphFrame

\* While Compile works there is no verdict.
LEMMA NoVerdict ==
  ASSUME verdict' = "none"
  PROVE  Judged'
  BY Zenon DEF Judged

\* A verdict that says no more than that the graph was not understood.
LEMMA OtherVerdict ==
  ASSUME verdict' \in {"no entry", "no finish", "unknown point", "unknown end"}
  PROVE  Judged'
  <1>1. /\ verdict' # "ok" /\ verdict' # "cycle" /\ verdict' # "unreachable" /\ verdict' # "finish has edges"
        /\ verdict' # "dead end" /\ verdict' # "mixed"
    OBVIOUS
  <1> QED
    BY ONLY <1>1, Zenon DEF Judged

\* A step of ensureAcyclic that goes on.
LEMMA DfsStep ==
  ASSUME CompileInv, phase' = "acyclic", PointsKnown, EdgesKnown, UNCHANGED graph,
         verdict' = "none", queue' = <<>>, seen' = {}, states' \in [Names -> Colours],
         DfsOk(nodes, edges, Coloured("visited")', stack'),
         \A n \in Names : states'[n] = "visiting" <=> \E j \in 1 .. Len(stack') : stack'[j].node = n
  PROVE  CompileInv'
  <1>1. nodes' = nodes /\ edges' = edges /\ entry' = entry /\ finish' = finish
    BY DEF graph
  <1>2. PointsKnown' /\ EdgesKnown'
    BY <1>1 DEF PointsKnown, EdgesKnown
  <1>3. DfsOk(nodes', edges', Coloured("visited")', stack')
    BY <1>1
  <1>4. /\ phase' # "build" /\ phase' # "reachable" /\ phase' # "structure"
        /\ phase' \in {"build", "acyclic", "reachable", "structure"}
        /\ phase' \notin {"reachable", "structure"}
    BY ONLY phase' = "acyclic", Zenon
  <1>5. Searching'
    BY ONLY <1>2, <1>3, <1>4, verdict' = "none", queue' = <<>>, seen' = {},
            \A n \in Names : states'[n] = "visiting" <=> \E j \in 1 .. Len(stack') : stack'[j].node = n, Zenon
       DEF Searching
  <1> QED
    BY <1>5, NoVerdict, GraphFrame DEF CompileInv

\* What is known while ensureAcyclic works.
LEMMA DfsKnown ==
  ASSUME CompileInv, phase = "acyclic"
  PROVE  /\ PointsKnown /\ EdgesKnown /\ verdict = "none" /\ queue = <<>> /\ seen = {}
         /\ states \in [Names -> Colours] /\ nodes \subseteq Names
         /\ DfsOk(nodes, edges, Coloured("visited"), stack)
         /\ \A n \in Names : states[n] = "visiting" <=> \E j \in 1 .. Len(stack) : stack[j].node = n
         /\ \A n \in Names : Len(edges[n]) \in Nat /\ \A k \in 1 .. Len(edges[n]) : edges[n][k].to \in nodes
  <1>1. CompileTypes /\ Searching
    BY DEF CompileInv
  <1>2. phase # "build" /\ phase \in {"build", "acyclic"}
    BY ONLY phase = "acyclic", Zenon
  <1>3. /\ PointsKnown /\ EdgesKnown /\ verdict = "none" /\ queue = <<>> /\ seen = {}
        /\ DfsOk(nodes, edges, Coloured("visited"), stack)
        /\ \A n \in Names : states[n] = "visiting" <=> \E j \in 1 .. Len(stack) : stack[j].node = n
    BY ONLY <1>1, <1>2, phase = "acyclic", Zenon DEF Searching
  <1>4. states \in [Names -> Colours] /\ nodes \subseteq Names /\ edges \in [Names -> Seq(Edge)]
    BY <1>1 DEF CompileTypes
  <1>5. ASSUME NEW n \in Names
        PROVE  Len(edges[n]) \in Nat /\ \A k \in 1 .. Len(edges[n]) : edges[n][k].to \in nodes
    <2>1. edges[n] \in Seq(Edge)
      BY ONLY <1>4, n \in Names
    <2>2. Len(edges[n]) \in Nat /\ DOMAIN edges[n] = 1 .. Len(edges[n])
          /\ \A k \in 1 .. Len(edges[n]) : edges[n] # <<>>
      BY ONLY <2>1
    <2> QED
      BY ONLY <1>3, <2>2, n \in Names DEF EdgesKnown
  <1> QED
    BY ONLY <1>3, <1>4, <1>5

\* Compile starts, or refuses the graph at once.
LEMMA CompileStep ==
  ASSUME CompileInv, Compile
  PROVE  CompileInv'
  <1>1. ASSUME NEW r \in {"no entry", "no finish", "unknown point", "unknown end"}, Refuses(r) PROVE CompileInv'
    <2>1. Returns(r)
      BY <1>1 DEF Refuses
    <2>2. CompileTypes' /\ Agreeing' /\ Searching' /\ verdict' = r
      BY <2>1, ReturnsStep
    <2> QED
      BY <2>2, OtherVerdict DEF CompileInv
  <1>2. CASE /\ PointsKnown /\ EdgesKnown
             /\ phase' = "acyclic" /\ verdict' = "none"
             /\ UNCHANGED <<graph, search, infos>>
    <2>1. CompileTypes /\ Searching /\ phase = "build"
      BY DEF CompileInv, Compile
    <2>2. states = Unvisited /\ stack = <<>> /\ queue = <<>> /\ seen = {}
      BY ONLY <2>1, Zenon DEF Searching
    <2>3. /\ states' = Unvisited /\ stack' = <<>> /\ queue' = <<>> /\ seen' = {} /\ UNCHANGED graph
      BY <1>2, <2>2 DEF search
    <2>4. states' \in [Names -> Colours]
      BY ONLY <2>3 DEF Unvisited, Colours
    <2>5. \A n \in Names : states'[n] = "unvisited"
      BY ONLY <2>3 DEF Unvisited
    <2>6. Coloured("visited")' = {}
      BY ONLY <2>5 DEF Coloured
    <2>7. /\ <<>> \in Seq(Frame(nodes)) /\ Len(<<>>) = 0 /\ 1 .. 0 = {}
      OBVIOUS
    <2>8. DfsOk(nodes, edges, {}, <<>>)
      BY <2>7 DEF DfsOk, OnPath, Simple, Followed, NoCycle
    <2>9. \A n \in Names : states'[n] = "visiting" <=> \E j \in 1 .. Len(stack') : stack'[j].node = n
      <3>1. 1 .. Len(stack') = {}
        BY ONLY <2>3
      <3> QED
        BY ONLY <2>5, <3>1
    <2> QED
      BY <1>2, <2>3, <2>4, <2>6, <2>8, <2>9, DfsStep
  <1>3. \/ entry = Unset /\ Refuses("no entry")
        \/ Refuses("no finish") \/ Refuses("unknown point") \/ Refuses("unknown end")
        \/ /\ PointsKnown /\ EdgesKnown
           /\ phase' = "acyclic" /\ verdict' = "none"
           /\ UNCHANGED <<graph, search, infos>>
    BY Zenon DEF Compile
  <1> QED
    BY <1>1, <1>2, <1>3, Zenon

\* VisitRoot
LEMMA RootStep ==
  ASSUME CompileInv, NEW n \in nodes, VisitRoot(n)
  PROVE  CompileInv'
  <1>1. /\ phase = "acyclic" /\ stack = <<>> /\ states[n] = "unvisited"
        /\ states' = [states EXCEPT ![n] = "visiting"] /\ stack' = <<Call(n)>>
        /\ UNCHANGED graph /\ phase' = phase /\ queue' = queue /\ seen' = seen /\ verdict' = verdict
    BY DEF VisitRoot
  <1>2. /\ PointsKnown /\ EdgesKnown /\ verdict = "none" /\ queue = <<>> /\ seen = {}
        /\ states \in [Names -> Colours] /\ nodes \subseteq Names
        /\ DfsOk(nodes, edges, Coloured("visited"), stack)
        /\ \A m \in Names : states[m] = "visiting" <=> \E j \in 1 .. Len(stack) : stack[j].node = m
        /\ \A m \in Names : Len(edges[m]) \in Nat
    BY <1>1, DfsKnown
  <1>3. n \in Names
    BY <1>2
  <1>4. /\ states' \in [Names -> Colours] /\ states'[n] = "visiting"
        /\ \A m \in Names : m # n => states'[m] = states[m]
    BY ONLY <1>1, <1>2, <1>3 DEF Colours
  <1>5. Coloured("visited")' = Coloured("visited") /\ n \notin Coloured("visited")
    BY ONLY <1>1, <1>3, <1>4 DEF Coloured
  <1>6. DfsOk(nodes, edges, Coloured("visited"), <<Call(n)>>)
    BY ONLY <1>1, <1>2, <1>3, <1>5, DfsRoot, n \in nodes
  <1>7. ASSUME NEW m \in Names PROVE states'[m] = "visiting" <=> \E j \in 1 .. Len(stack') : stack'[j].node = m
    <2>1. Len(stack') = 1 /\ stack'[1].node = n /\ 1 .. 1 = {1}
      BY ONLY <1>1 DEF Call
    <2>2. states[m] # "visiting"
      <3>1. 1 .. Len(stack) = {}
        BY ONLY <1>1
      <3> QED
        BY ONLY <1>2, <3>1, m \in Names
    <2> QED
      BY ONLY <1>4, <2>1, <2>2, m \in Names
  <1> QED
    BY <1>1, <1>2, <1>4, <1>5, <1>6, <1>7, DfsStep

\* VisitEdge
LEMMA VisitEdgeStep ==
  ASSUME CompileInv, VisitEdge
  PROVE  CompileInv'
  <1>1. PICK top : top = stack[Len(stack)]
    OBVIOUS
  <1>2. PICK next : next = edges[top.node][top.done + 1].to
    OBVIOUS
  <1>3. PICK rest : rest = [stack EXCEPT ![Len(stack)].done = @ + 1]
    OBVIOUS
  <1>4. /\ phase = "acyclic" /\ stack # <<>> /\ top.done < Len(edges[top.node])
        /\ \/ states[next] = "visiting" /\ Refuses("cycle")
           \/ /\ states[next] = "unvisited"
              /\ states' = [states EXCEPT ![next] = "visiting"] /\ stack' = Append(rest, Call(next))
              /\ UNCHANGED <<graph, phase, queue, seen, verdict, infos>>
           \/ /\ states[next] = "visited"
              /\ stack' = rest
              /\ UNCHANGED <<graph, phase, states, queue, seen, verdict, infos>>
    BY <1>1, <1>2, <1>3 DEF VisitEdge
  <1>5. /\ PointsKnown /\ EdgesKnown /\ verdict = "none" /\ queue = <<>> /\ seen = {}
        /\ states \in [Names -> Colours] /\ nodes \subseteq Names
        /\ DfsOk(nodes, edges, Coloured("visited"), stack)
        /\ \A m \in Names : states[m] = "visiting" <=> \E j \in 1 .. Len(stack) : stack[j].node = m
        /\ \A m \in Names : Len(edges[m]) \in Nat /\ \A k \in 1 .. Len(edges[m]) : edges[m][k].to \in nodes
    BY <1>4, DfsKnown
  <1>6. stack \in Seq(Frame(nodes))
    BY <1>5 DEF DfsOk
  <1>7. top \in Frame(nodes) /\ Len(stack) \in Nat \ {0}
    BY ONLY <1>1, <1>4, <1>6
  <1>8. top.node \in nodes /\ top.done \in Nat
    BY ONLY <1>7 DEF Frame
  <1>9. /\ top.node \in Names /\ Len(edges[top.node]) \in Nat /\ next \in nodes /\ next \in Names
        /\ Len(edges[next]) \in Nat
    <2>1. top.node \in Names /\ Len(edges[top.node]) \in Nat
      BY ONLY <1>5, <1>8
    <2>2. top.done + 1 \in 1 .. Len(edges[top.node])
      BY ONLY <1>4, <1>8, <2>1
    <2>3. next \in nodes
      BY ONLY <1>2, <1>5, <2>1, <2>2
    <2> QED
      BY ONLY <1>5, <2>1, <2>3
  <1>10. /\ Len(rest) = Len(stack) /\ rest \in Seq(Frame(nodes))
         /\ \A j \in 1 .. Len(stack) : rest[j].node = stack[j].node
    BY ONLY <1>3, <1>4, <1>6, DoneMore
  <1>11. CASE states[next] = "visiting" /\ Refuses("cycle")
    <2>1. Returns("cycle")
      BY <1>11 DEF Refuses
    <2>2. CompileTypes' /\ Agreeing' /\ Searching' /\ verdict' = "cycle" /\ UNCHANGED graph
      BY <2>1, ReturnsStep
    <2>3. PICK b \in 1 .. Len(stack) : stack[b].node = next
      BY <1>5, <1>9, <1>11
    <2>4. ~ NoCycle(edges, nodes)
      <3>1. \A m \in nodes : Len(edges[m]) \in Nat
        BY <1>5
      <3>2. stack[b].node = edges[top.node][top.done + 1].to
        BY <1>2, <2>3
      <3> QED
        BY ONLY <1>1, <1>4, <1>5, <1>9, <3>1, <3>2, DfsCycle, b \in 1 .. Len(stack)
    <2>5. ~ NoCycle(edges', nodes')
      BY <2>2, <2>4 DEF graph
    <2>6. Judged'
      BY ONLY <2>2, <2>5, Zenon DEF Judged
    <2> QED
      BY <2>2, <2>6 DEF CompileInv
  <1>12. CASE /\ states[next] = "unvisited"
              /\ states' = [states EXCEPT ![next] = "visiting"] /\ stack' = Append(rest, Call(next))
              /\ UNCHANGED <<graph, phase, queue, seen, verdict, infos>>
    <2>1. /\ states' \in [Names -> Colours] /\ states'[next] = "visiting"
          /\ \A m \in Names : m # next => states'[m] = states[m]
      BY ONLY <1>5, <1>9, <1>12 DEF Colours
    <2>2. Coloured("visited")' = Coloured("visited") /\ next \notin Coloured("visited")
      BY ONLY <1>9, <1>12, <2>1 DEF Coloured
    <2>3. \A j \in 1 .. Len(stack) : stack[j].node # next
      <3>1. states[next] # "visiting"
        BY <1>12
      <3> QED
        BY ONLY <1>5, <1>9, <3>1
    <2>4. DfsOk(nodes, edges, Coloured("visited"), stack')
      BY ONLY <1>1, <1>2, <1>3, <1>4, <1>5, <1>9, <1>12, <2>2, <2>3, DfsInto
    <2>5. ASSUME NEW m \in Names PROVE states'[m] = "visiting" <=> \E j \in 1 .. Len(stack') : stack'[j].node = m
      <3>1. PICK c : c = Call(next)
        OBVIOUS
      <3>2. c.node = next /\ c \in Frame(nodes)
        BY ONLY <1>9, <3>1 DEF Call, Frame
      <3>3. stack' = Append(rest, c)
        BY ONLY <1>12, <3>1
      <3>4. /\ Len(stack') = Len(stack) + 1 /\ stack'[Len(stack) + 1] = c
            /\ \A j \in 1 .. Len(stack) : stack'[j].node = stack[j].node
        BY ONLY <1>10, <3>2, <3>3
      <3>5. \A j : j \in 1 .. Len(stack) + 1 <=> j \in 1 .. Len(stack) \/ j = Len(stack) + 1
        BY ONLY <1>7
      <3>6. (\E j \in 1 .. Len(stack') : stack'[j].node = m) <=> m = next \/ \E j \in 1 .. Len(stack) : stack[j].node = m
        BY ONLY <3>2, <3>4, <3>5
      <3> QED
        BY ONLY <1>5, <2>1, <3>6, m \in Names
    <2>6. /\ phase' = "acyclic" /\ UNCHANGED graph /\ verdict' = "none" /\ queue' = <<>> /\ seen' = {}
      BY ONLY <1>4, <1>5, <1>12
    <2> QED
      BY <1>5, <2>1, <2>2, <2>4, <2>5, <2>6, DfsStep
  <1>13. CASE /\ states[next] = "visited"
              /\ stack' = rest
              /\ UNCHANGED <<graph, phase, states, queue, seen, verdict, infos>>
    <2>1. next \in Coloured("visited")
      BY <1>9, <1>13 DEF Coloured
    <2>2. DfsOk(nodes, edges, Coloured("visited"), stack')
      BY ONLY <1>1, <1>2, <1>3, <1>4, <1>5, <1>9, <1>13, <2>1, DfsOver
    <2>3. states' = states /\ Coloured("visited")' = Coloured("visited")
      BY <1>13 DEF Coloured
    <2>4. /\ phase' = "acyclic" /\ UNCHANGED graph /\ verdict' = "none" /\ queue' = <<>> /\ seen' = {}
      BY ONLY <1>4, <1>5, <1>13
    <2>5. \A m \in Names : states'[m] = "visiting" <=> \E j \in 1 .. Len(stack') : stack'[j].node = m
      BY ONLY <1>5, <1>10, <1>13, <2>3
    <2> QED
      BY <1>5, <2>2, <2>3, <2>4, <2>5, DfsStep
  <1> QED
    BY <1>4, <1>11, <1>12, <1>13

\* VisitEnds
LEMMA VisitEndsStep ==
  ASSUME CompileInv, VisitEnds
  PROVE  CompileInv'
  <1>1. PICK top : top = stack[Len(stack)]
    OBVIOUS
  <1>2. /\ phase = "acyclic" /\ stack # <<>> /\ top.done = Len(edges[top.node])
        /\ states' = [states EXCEPT ![top.node] = "visited"]
        /\ stack' = SubSeq(stack, 1, Len(stack) - 1)
        /\ UNCHANGED <<graph, phase, queue, seen, verdict, infos>>
    BY <1>1 DEF VisitEnds, Leave
  <1>3. /\ PointsKnown /\ EdgesKnown /\ verdict = "none" /\ queue = <<>> /\ seen = {}
        /\ states \in [Names -> Colours] /\ nodes \subseteq Names
        /\ DfsOk(nodes, edges, Coloured("visited"), stack)
        /\ \A m \in Names : states[m] = "visiting" <=> \E j \in 1 .. Len(stack) : stack[j].node = m
        /\ \A m \in Names : Len(edges[m]) \in Nat
    BY <1>2, DfsKnown
  <1>4. stack \in Seq(Frame(nodes)) /\ Simple(stack)
    BY <1>3 DEF DfsOk
  <1>5. top \in Frame(nodes) /\ Len(stack) \in Nat \ {0}
    BY ONLY <1>1, <1>2, <1>4
  <1>6. top.node \in nodes /\ top.node \in Names /\ Len(edges[top.node]) \in Nat
    BY ONLY <1>3, <1>5 DEF Frame
  <1>7. /\ states' \in [Names -> Colours] /\ states'[top.node] = "visited"
        /\ \A m \in Names : m # top.node => states'[m] = states[m]
    BY ONLY <1>2, <1>3, <1>6 DEF Colours
  <1>8. Coloured("visited")' = Coloured("visited") \cup {top.node}
    BY ONLY <1>6, <1>7 DEF Coloured
  <1>9. DfsOk(nodes, edges, Coloured("visited") \cup {top.node}, stack')
    BY ONLY <1>1, <1>2, <1>3, <1>6, DfsLeave
  <1>10. ASSUME NEW m \in Names PROVE states'[m] = "visiting" <=> \E j \in 1 .. Len(stack') : stack'[j].node = m
    <2>1. PICK L : L = Len(stack)
      OBVIOUS
    <2>2. L \in Nat \ {0} /\ Len(stack') = L - 1 /\ \A j \in 1 .. L - 1 : stack'[j] = stack[j]
      BY ONLY <1>2, <1>4, <1>5, <2>1
    <2>3. \A j : /\ j \in 1 .. L <=> j \in 1 .. L - 1 \/ j = L
                 /\ j \in 1 .. L - 1 => j # L
      BY ONLY <2>2
    <2>4. \A i, j \in 1 .. L : stack[i].node = stack[j].node => i = j
      BY ONLY <1>4, <2>1 DEF Simple
    <2>5. (\E j \in 1 .. L - 1 : stack'[j].node = m) <=> m # top.node /\ \E j \in 1 .. L : stack[j].node = m
      BY ONLY <1>1, <2>1, <2>2, <2>3, <2>4
    <2>6. states'[m] = "visiting" <=> m # top.node /\ states[m] = "visiting"
      BY ONLY <1>7, m \in Names
    <2> QED
      BY ONLY <1>3, <2>1, <2>2, <2>5, <2>6, m \in Names
  <1>11. /\ phase' = "acyclic" /\ UNCHANGED graph /\ verdict' = "none" /\ queue' = <<>> /\ seen' = {}
    BY ONLY <1>2, <1>3
  <1> QED
    BY <1>3, <1>7, <1>8, <1>9, <1>10, <1>11, DfsStep

\* A step of Compile behind ensureAcyclic that goes on.
LEMMA LaterStep ==
  ASSUME CompileInv, phase' \in {"reachable", "structure"}, PointsKnown, EdgesKnown, UNCHANGED graph,
         verdict' = "none", states' \in [Names -> Colours], NoCycle(edges, nodes),
         phase' = "reachable" => BfsOk(nodes, edges, entry, finish, queue', seen'),
         phase' = "structure" => Reached(nodes, edges, entry, finish)
  PROVE  CompileInv'
  <1>1. nodes' = nodes /\ edges' = edges /\ entry' = entry /\ finish' = finish
    BY DEF graph
  <1>2. PointsKnown' /\ EdgesKnown' /\ NoCycle(edges', nodes')
    BY <1>1 DEF PointsKnown, EdgesKnown
  <1>3. /\ phase' = "reachable" => BfsOk(nodes', edges', entry', finish', queue', seen')
        /\ phase' = "structure" => Reached(nodes', edges', entry', finish')
    BY <1>1
  <1>4. /\ phase' # "build" /\ phase' # "acyclic" /\ phase' \notin {"build", "acyclic"}
        /\ phase' \in {"build", "acyclic", "reachable", "structure"}
    BY ONLY phase' \in {"reachable", "structure"}
  <1>5. Searching'
    BY ONLY <1>2, <1>3, <1>4, verdict' = "none", Zenon DEF Searching
  <1> QED
    BY <1>5, NoVerdict, GraphFrame DEF CompileInv

\* What is known behind ensureAcyclic.
LEMMA LaterKnown ==
  ASSUME CompileInv, phase \in {"reachable", "structure"}
  PROVE  /\ PointsKnown /\ EdgesKnown /\ verdict = "none" /\ states \in [Names -> Colours]
         /\ NoCycle(edges, nodes)
         /\ phase = "reachable" => BfsOk(nodes, edges, entry, finish, queue, seen)
         /\ phase = "structure" => Reached(nodes, edges, entry, finish)
  <1>1. CompileTypes /\ Searching
    BY DEF CompileInv
  <1>2. phase # "build"
    BY ONLY phase \in {"reachable", "structure"}
  <1>3. states \in [Names -> Colours]
    BY <1>1 DEF CompileTypes
  <1> QED
    BY ONLY <1>1, <1>2, <1>3, phase \in {"reachable", "structure"}, Zenon DEF Searching

\* AllVisited: every node was left, so no cycle is in the graph.
LEMMA AllVisitedStep ==
  ASSUME CompileInv, AllVisited
  PROVE  CompileInv'
  <1>1. /\ phase = "acyclic" /\ stack = <<>> /\ \A n \in nodes : states[n] # "unvisited"
        /\ \/ entry = finish /\ phase' = "structure"
           \/ phase' = "reachable" /\ queue' = <<entry>>
        /\ UNCHANGED graph /\ states' = states /\ seen' = seen /\ verdict' = verdict
    BY DEF AllVisited
  <1>2. /\ PointsKnown /\ EdgesKnown /\ verdict = "none" /\ queue = <<>> /\ seen = {}
        /\ states \in [Names -> Colours] /\ nodes \subseteq Names
        /\ DfsOk(nodes, edges, Coloured("visited"), stack)
        /\ \A m \in Names : states[m] = "visiting" <=> \E j \in 1 .. Len(stack) : stack[j].node = m
    BY <1>1, DfsKnown
  <1>3. Coloured("visited") = nodes
    <2>1. 1 .. Len(stack) = {}
      BY ONLY <1>1
    <2>2. ASSUME NEW n \in nodes PROVE n \in Coloured("visited")
      <3>1. n \in Names /\ states[n] \in Colours
        BY ONLY <1>2, n \in nodes
      <3>2. states[n] # "visiting" /\ states[n] # "unvisited"
        BY ONLY <1>1, <1>2, <2>1, <3>1, n \in nodes
      <3> QED
        BY ONLY <3>1, <3>2 DEF Colours, Coloured
    <2>3. Coloured("visited") \subseteq nodes
      BY <1>2 DEF DfsOk
    <2> QED
      BY <2>2, <2>3
  <1>4. NoCycle(edges, nodes)
    BY <1>2, <1>3 DEF DfsOk
  <1>5. entry \in nodes
    BY <1>2 DEF PointsKnown
  <1>6. \A q : Reached(nodes, edges, entry, entry)
    BY DEF Reached
  <1>7. CASE entry = finish /\ phase' = "structure"
    <2>1. phase' # "reachable" /\ phase' \in {"reachable", "structure"}
      BY ONLY <1>7
    <2> QED
      BY <1>1, <1>2, <1>4, <1>6, <1>7, <2>1, LaterStep
  <1>8. CASE entry # finish /\ phase' = "reachable" /\ queue' = <<entry>>
    <2>1. phase' # "structure" /\ phase' \in {"reachable", "structure"}
      BY ONLY <1>8
    <2>2. <<entry>> \in Seq(nodes) /\ Len(<<entry>>) = 1 /\ <<entry>>[1] = entry /\ 1 .. 1 = {1}
      BY <1>5
    <2>3. BfsOk(nodes, edges, entry, finish, <<entry>>, {})
      BY ONLY <1>6, <2>2 DEF BfsOk
    <2> QED
      BY <1>1, <1>2, <1>4, <1>8, <2>1, <2>3, LaterStep
  <1> QED
    BY <1>7, <1>8 DEF AllVisited

\* Seek
LEMMA SeekStep ==
  ASSUME CompileInv, Seek
  PROVE  CompileInv'
  <1>1. phase = "reachable"
    BY DEF Seek
  <1>2. phase \in {"reachable", "structure"}
    BY <1>1
  <1>3. /\ PointsKnown /\ EdgesKnown /\ verdict = "none" /\ states \in [Names -> Colours]
        /\ NoCycle(edges, nodes) /\ BfsOk(nodes, edges, entry, finish, queue, seen)
    BY <1>1, <1>2, LaterKnown
  <1>4. queue \in Seq(nodes)
    BY <1>3 DEF BfsOk
  <1>5. CASE queue = <<>> /\ Refuses("unreachable")
    <2>1. Returns("unreachable")
      BY <1>5 DEF Refuses
    <2>2. CompileTypes' /\ Agreeing' /\ Searching' /\ verdict' = "unreachable" /\ UNCHANGED graph
      BY <2>1, ReturnsStep
    <2>3. ~ Reached(nodes, edges, entry, finish)
      BY <1>3, <1>5, BfsEmpty
    <2>4. ~ Reached(nodes', edges', entry', finish')
      BY <2>2, <2>3 DEF graph
    <2>5. Judged'
      BY ONLY <2>2, <2>4, Zenon DEF Judged
    <2> QED
      BY <2>2, <2>5 DEF CompileInv
  <1>6. CASE /\ queue # <<>> /\ Head(queue) \in seen
             /\ queue' = Tail(queue)
             /\ UNCHANGED <<graph, phase, states, stack, seen, verdict, infos>>
    <2>1. BfsOk(nodes, edges, entry, finish, queue', seen')
      BY <1>3, <1>6, BfsAgain
    <2>2. phase' # "structure" /\ phase' \in {"reachable", "structure"}
      BY <1>1, <1>6
    <2> QED
      BY <1>3, <1>6, <2>1, <2>2, LaterStep
  <1>7. CASE /\ queue # <<>> /\ Head(queue) \notin seen /\ Head(queue) = finish
             /\ phase' = "structure"
             /\ UNCHANGED <<graph, search, verdict, infos>>
    <2>1. Reached(nodes, edges, entry, finish)
      <3>1. Head(queue) = queue[1] /\ 1 \in 1 .. Len(queue)
        BY ONLY <1>4, <1>7
      <3> QED
        BY <1>3, <1>7, <3>1 DEF BfsOk
    <2>2. phase' # "reachable" /\ phase' \in {"reachable", "structure"}
      BY <1>7
    <2>3. states' = states
      BY <1>7 DEF search
    <2> QED
      BY <1>3, <1>7, <2>1, <2>2, <2>3, LaterStep
  <1>8. CASE /\ queue # <<>> /\ Head(queue) \notin seen /\ Head(queue) # finish
             /\ queue' = Tail(queue) \o Targets(Head(queue))
             /\ seen' = seen \cup {Head(queue)}
             /\ UNCHANGED <<graph, phase, states, stack, verdict, infos>>
    <2>1. PICK h : h = Head(queue)
      OBVIOUS
    <2>2. h \in nodes
      BY ONLY <1>4, <1>8, <2>1
    <2>3. h \in Names /\ edges[h] \in Seq(Edge)
      BY <2>2 DEF CompileInv, CompileTypes
    <2>4. /\ Len(edges[h]) \in Nat /\ DOMAIN edges[h] = 1 .. Len(edges[h])
          /\ \A k \in 1 .. Len(edges[h]) : edges[h] # <<>>
      BY ONLY <2>3
    <2>5. \A k \in 1 .. Len(edges[h]) : edges[h][k].to \in nodes
      BY ONLY <1>3, <2>3, <2>4 DEF EdgesKnown
    <2>6. PICK targets : targets = Targets(h)
      OBVIOUS
    <2>7. /\ targets \in Seq(nodes) /\ Len(targets) = Len(edges[h])
          /\ \A k \in 1 .. Len(targets) : targets[k] = edges[h][k].to
      BY ONLY <2>4, <2>5, <2>6 DEF Targets
    <2>8. BfsOk(nodes, edges, entry, finish, Tail(queue) \o targets, seen \cup {Head(queue)})
      BY ONLY <1>3, <1>8, <2>1, <2>7, BfsMore
    <2>9. BfsOk(nodes, edges, entry, finish, queue', seen')
      BY ONLY <1>8, <2>1, <2>6, <2>8
    <2>10. phase' # "structure" /\ phase' \in {"reachable", "structure"}
      BY <1>1, <1>8
    <2> QED
      BY <1>3, <1>8, <2>9, <2>10, LaterStep
  <1> QED
    BY <1>5, <1>6, <1>7, <1>8, Zenon DEF Seek

\* ChecksStructure
LEMMA StructureStep ==
  ASSUME CompileInv, ChecksStructure
  PROVE  CompileInv'
  <1>1. phase = "structure"
    BY DEF ChecksStructure
  <1>2. phase \in {"reachable", "structure"}
    BY <1>1
  <1>3. PointsKnown /\ EdgesKnown /\ NoCycle(edges, nodes) /\ Reached(nodes, edges, entry, finish)
    BY <1>1, <1>2, LaterKnown
  <1>4. ASSUME NEW r, Refuses(r) PROVE Returns(r) /\ UNCHANGED infos
    BY <1>4 DEF Refuses
  <1>5. ASSUME UNCHANGED graph
        PROVE  /\ PointsKnown' /\ EdgesKnown' /\ NoCycle(edges', nodes') /\ Reached(nodes', edges', entry', finish')
               /\ FinishHasEdges' <=> FinishHasEdges
               /\ DeadEnd' <=> DeadEnd
               /\ Mixed' <=> Mixed
               /\ NodeInfos' = NodeInfos /\ finish' \in nodes'
    <2>1. nodes' = nodes /\ edges' = edges /\ numbered' = numbered /\ entry' = entry /\ finish' = finish
      BY <1>5 DEF graph
    <2>2. PointsKnown' /\ EdgesKnown' /\ NoCycle(edges', nodes') /\ Reached(nodes', edges', entry', finish')
      BY <1>3, <2>1 DEF PointsKnown, EdgesKnown
    <2>3. finish' \in nodes'
      BY <2>2 DEF PointsKnown
    <2>4. (FinishHasEdges' <=> FinishHasEdges) /\ (DeadEnd' <=> DeadEnd) /\ (Mixed' <=> Mixed)
      BY ONLY <2>1 DEF FinishHasEdges, DeadEnd, Mixed
    <2>5. NodeInfos' = NodeInfos
      BY ONLY <2>1 DEF NodeInfos, EdgesInto
    <2> QED
      BY <2>2, <2>3, <2>4, <2>5
  <1>6. CASE FinishHasEdges /\ Refuses("finish has edges")
    <2>1. CompileTypes' /\ Agreeing' /\ Searching' /\ verdict' = "finish has edges" /\ UNCHANGED graph
      BY <1>4, <1>6, ReturnsStep
    <2>2. FinishHasEdges' /\ finish' \in nodes'
      BY <1>5, <1>6, <2>1
    <2>3. Judged'
      BY ONLY <2>1, <2>2, Zenon DEF Judged
    <2> QED
      BY <2>1, <2>3 DEF CompileInv
  <1>7. CASE DeadEnd /\ Refuses("dead end")
    <2>1. CompileTypes' /\ Agreeing' /\ Searching' /\ verdict' = "dead end" /\ UNCHANGED graph
      BY <1>4, <1>7, ReturnsStep
    <2>2. DeadEnd'
      BY <1>5, <1>7, <2>1
    <2>3. Judged'
      BY ONLY <2>1, <2>2, Zenon DEF Judged
    <2> QED
      BY <2>1, <2>3 DEF CompileInv
  <1>8. CASE Mixed /\ Refuses("mixed")
    <2>1. CompileTypes' /\ Agreeing' /\ Searching' /\ verdict' = "mixed" /\ UNCHANGED graph
      BY <1>4, <1>8, ReturnsStep
    <2>2. Mixed'
      BY <1>5, <1>8, <2>1
    <2>3. Judged'
      BY ONLY <2>1, <2>2, Zenon DEF Judged
    <2> QED
      BY <2>1, <2>3 DEF CompileInv
  <1>9. CASE /\ ~ FinishHasEdges /\ ~ DeadEnd /\ ~ Mixed
             /\ Returns("ok") /\ infos' = NodeInfos
    <2>1. CompileTypes' /\ Agreeing' /\ Searching' /\ verdict' = "ok" /\ UNCHANGED graph
      BY <1>9, ReturnsStep
    <2>2. /\ PointsKnown' /\ EdgesKnown' /\ NoCycle(edges', nodes') /\ Reached(nodes', edges', entry', finish')
          /\ ~ FinishHasEdges' /\ ~ DeadEnd' /\ ~ Mixed' /\ infos' = NodeInfos'
      BY <1>5, <1>9, <2>1
    <2>3. Judged'
      BY ONLY <2>1, <2>2, Zenon DEF Judged
    <2> QED
      BY <2>1, <2>3 DEF CompileInv
  <1> QED
    BY <1>6, <1>7, <1>8, <1>9, Zenon DEF ChecksStructure

\* Nothing happens.
LEMMA CompileStutter ==
  ASSUME CompileInv, UNCHANGED vars
  PROVE  CompileInv'
  <1>1. /\ UNCHANGED graph
        /\ nodes' = nodes /\ edges' = edges /\ entry' = entry /\ finish' = finish
        /\ phase' = phase /\ states' = states /\ stack' = stack /\ queue' = queue /\ seen' = seen
        /\ verdict' = verdict /\ infos' = infos
    BY DEF vars, graph, search
  <1>2. CompileTypes /\ Searching /\ Judged
    BY DEF CompileInv
  <1>3. states' \in [Names -> Colours]
    BY <1>1, <1>2 DEF CompileTypes
  <1>4. /\ PointsKnown' <=> PointsKnown
        /\ EdgesKnown' <=> EdgesKnown
        /\ Coloured("visited")' = Coloured("visited")
    BY ONLY <1>1 DEF PointsKnown, EdgesKnown, Coloured
  <1>5. Searching'
    BY ONLY <1>1, <1>2, <1>4, Zenon DEF Searching
  <1>6. (FinishHasEdges' <=> FinishHasEdges) /\ (DeadEnd' <=> DeadEnd) /\ (Mixed' <=> Mixed)
    BY ONLY <1>1 DEF FinishHasEdges, DeadEnd, Mixed
  <1>7. NodeInfos' = NodeInfos
    BY ONLY <1>1 DEF NodeInfos, EdgesInto
  <1>8. Judged'
    BY ONLY <1>1, <1>2, <1>4, <1>6, <1>7, Zenon DEF Judged
  <1> QED
    BY <1>1, <1>3, <1>5, <1>8, GraphFrame DEF CompileInv

\* What Compile says of a graph is right, for every graph, in whatever order it
\* was built and the maps are iterated (graph/graph.go).
THEOREM CompileExactHolds == Spec => []CompileExact
  <1>1. ASSUME CompileInv, [Next]_vars PROVE CompileInv'
    BY <1>1, NodeStep, EdgeStep, CompileStep, RootStep, VisitEdgeStep, VisitEndsStep, AllVisitedStep,
       SeekStep, StructureStep, CompileStutter DEF Next
  <1>2. CompileInv => CompileExact
    BY JudgedExact DEF CompileInv
  <1> QED
    BY <1>1, <1>2, CompileStarts, PTL DEF Spec

===============================================================================
