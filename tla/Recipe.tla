-------------------------------- MODULE Recipe --------------------------------
(***************************************************************************)
(* Declarative recipes (package recipe): Validate, Build with its          *)
(* parameters, templates and registries, BuildSessionOption, and the run   *)
(* of the flow that was built as far as the templates of its sub agents    *)
(* and their output keys are concerned.                                    *)
(*                                                                         *)
(* A template is the set of keys it refers to; it parses.  A value is its  *)
(* Go type; an "option" is a string that a select parameter offers.        *)
(***************************************************************************)
EXTENDS Naturals, Sequences, SequencesExt

CONSTANTS
  Recipes,      \* the recipes considered
  Given,        \* the parameters callers pass: functions from names to values
  Models,       \* the names that the model registry knows
  Registries    \* tool registries: from a key to the Name() of its tool

Template == [given : BOOLEAN, keys : SUBSET STRING]
NoTemplate == [given |-> FALSE, keys |-> {}]

ParameterSpec == [name : STRING, type : STRING, default : STRING, required : STRING]

SubAgentSpec ==
  [name : STRING, model : STRING, instruction : Template, prompt : Template,
   params : Seq(ParameterSpec), tools : Seq(STRING), output : STRING]

\* header: version and name are given.  context: "none" or a strategy, with the
\* model that it names for its summaries.
AgentSpec ==
  [header : BOOLEAN, model : STRING, instruction : Template, prompt : Template,
   params : Seq(ParameterSpec), subs : Seq(SubAgentSpec), execution : STRING,
   tools : Seq(STRING), output : STRING, maxIterations : Nat, context : STRING,
   contextModel : STRING]

ASSUME RecipeAssumption ==
  /\ Recipes \subseteq AgentSpec /\ Models \subseteq STRING
  /\ \A r \in Registries : DOMAIN r \subseteq STRING /\ \A t \in DOMAIN r : r[t] \in STRING

VARIABLES
  recipe, given,
  registry,     \* the tools
  stage,        \* "spec", "refused", "built", "unrendered", "failed"
  built,        \* the agents that were built, the sub agents of a flow in order
  option,       \* what BuildSessionOption returns: "none", "compressor", "error"
  begun, ended, \* agents whose run began, and ended well
  exited,       \* those of them that a tool ended, without an answer
  state,        \* keys of the session's state
  filled        \* per agent: the keys of its instruction that were filled

rvars == <<recipe, given, registry, stage, built, option, begun, ended, exited, state, filled>>

Flows == {"sequential", "parallel", "loop"}

-----------------------------------------------------------------------------
(***************************************************************************)
(* Validate.  Only its first error is reported; which one is left out.     *)
(***************************************************************************)
Distinct(names) == "" \notin Range(names) /\ IsInjective(names)

validateParamType(type, value) ==
  CASE type = "string"  -> value \in {"string", "option"}
    [] type = "number"  -> value = "number"
    [] type = "boolean" -> value = "boolean"
    [] type = "select"  -> value = "option"

validateParameters(params) ==
  /\ Distinct([i \in DOMAIN params |-> params[i].name])
  /\ \A i \in DOMAIN params :
       /\ params[i].type \in {"string", "number", "boolean", "select"}
       /\ params[i].required \in {"", "required", "optional"}
       /\ params[i].default # "" => validateParamType(params[i].type, params[i].default)

validateSubAgent(sub) ==
  /\ sub.name # "" /\ sub.instruction.given
  /\ validateParameters(sub.params) /\ Distinct(sub.tools)

NeverConflicts(spec, sub) == FALSE  \* with a fault

\* In tool mode sub agents and tools are called by name.
Conflicts(spec, sub) == spec.execution = "tool" /\ sub.name \in Range(spec.tools)

Modelless(spec, sub) == spec.execution \in Flows /\ spec.model = "" /\ sub.model = ""

Validate(spec) ==
  /\ spec.header
  /\ spec.instruction.given \/ spec.execution \in Flows
  /\ IF spec.subs = <<>> THEN spec.model # "" ELSE spec.execution # ""
  /\ spec.execution \in Flows \cup {"", "tool"}
  /\ spec.execution = "tool" => spec.model # ""
  /\ spec.execution \in Flows => spec.output = ""
  /\ spec.execution \in {"sequential", "parallel"} => spec.maxIterations = 0
  /\ validateParameters(spec.params) /\ Distinct(spec.tools)
  /\ spec.context \in {"none", "window", "summarize"}
  /\ \A i \in DOMAIN spec.subs :
       LET sub == spec.subs[i]
       IN  /\ validateSubAgent(sub) /\ ~ Conflicts(spec, sub) /\ ~ Modelless(spec, sub)
           /\ spec.execution = "tool" => sub.output = ""
           /\ \A j \in 1 .. i - 1 : spec.subs[j].name # sub.name

-----------------------------------------------------------------------------
(***************************************************************************)
(* Build.                                                                  *)
(***************************************************************************)

\* The registries find what was registered.
ResolvesModel(name) == name \in Models
ResolvesTool(key) == key \in DOMAIN registry

\* All keys are found; the agent, and its model, know the tools by their names.
resolveTools(keys) == \A i \in DOMAIN keys : ResolvesTool(keys[i])
ToolNames(keys) == [i \in DOMAIN keys |-> registry[keys[i]]]

\* Defaults, overridden by what is given.
resolveParams(params, values) ==
  LET defaults == {i \in DOMAIN params : params[i].default # ""}
  IN  [k \in {params[i].name : i \in defaults} \cup DOMAIN values |->
         IF k \in DOMAIN values THEN values[k]
         ELSE params[CHOOSE i \in defaults : params[i].name = k].default]

validateParamValues(params, values) ==
  \A i \in DOMAIN params :
    IF params[i].name \in DOMAIN values
    THEN validateParamType(params[i].type, values[params[i].name])
    ELSE params[i].required # "required"

\* renderTemplate fails when a key has no value.
Renders(template, values) == template.keys \subseteq DOMAIN values

DropsUnknown(template, values) == {}  \* with a fault: unknown keys become empty

\* renderTemplatePreservingUnknown: the keys that stay for the run.
Left(template, values) == template.keys \ DOMAIN values

Built(spec, name, model, tools, values) ==
  [name |-> name, model |-> model, tools |-> tools, output |-> spec.output,
   rendered |-> spec.instruction.keys \cap DOMAIN values,
   left |-> Left(spec.instruction, values), prompt |-> Left(spec.prompt, values)]

ModelOf(spec, sub) == IF sub.model # "" THEN sub.model ELSE spec.model

\* buildSubAgent
SubBuilds(spec, sub, values) ==
  LET mine == resolveParams(sub.params, values)
  IN  /\ ModelOf(spec, sub) # "" /\ ResolvesModel(ModelOf(spec, sub))
      /\ validateParamValues(sub.params, mine)
      /\ resolveTools(sub.tools)

SubAgent(spec, sub, values) ==
  Built(sub, sub.name, ModelOf(spec, sub), ToolNames(sub.tools),
        resolveParams(sub.params, values))

\* buildSingleAgent, and the agent of buildToolAgent around its sub agents.
RootBuilds(spec, values) ==
  ResolvesModel(spec.model) /\ resolveTools(spec.tools) /\ Renders(spec.instruction, values)

RootAgent(spec, values) ==
  Built(spec, "root", spec.model,
        [i \in DOMAIN spec.subs |-> spec.subs[i].name] \o ToolNames(spec.tools), values)

\* Build, and withPromptInjection at its end.
BuildSucceeds(spec, values) ==
  /\ Validate(spec)
  /\ validateParamValues(spec.params, values)
  /\ spec.execution \notin Flows \/ spec.subs = <<>> => RootBuilds(spec, values)
  /\ \A i \in DOMAIN spec.subs : SubBuilds(spec, spec.subs[i], values)
  /\ Renders(spec.prompt, values)

\* The context's own model before the recipe's.
SummaryModel(spec) == IF spec.contextModel # "" THEN spec.contextModel ELSE spec.model

\* BuildSessionOption does not validate; it needs a model to summarize with.
SessionOption(spec) ==
  CASE spec.context = "none" -> "none"
    [] spec.context = "window" -> "compressor"
    [] spec.context = "summarize" /\ ResolvesModel(SummaryModel(spec)) -> "compressor"
    [] OTHER -> "error"

RStart ==
  /\ stage = "spec" /\ built = <<>> /\ option = "none"
  /\ begun = {} /\ ended = {} /\ exited = {} /\ state = {} /\ filled = <<>>

RInit == recipe \in Recipes /\ given \in Given /\ registry \in Registries /\ RStart

Build ==
  LET values == resolveParams(recipe.params, given)
      flow   == recipe.subs # <<>> /\ recipe.execution \in Flows
      subs   == [i \in DOMAIN recipe.subs |-> SubAgent(recipe, recipe.subs[i], values)]
  IN  /\ stage = "spec"
      /\ option' = SessionOption(recipe)
      /\ IF BuildSucceeds(recipe, values)
         THEN /\ stage' = "built"
              /\ built' = IF flow THEN subs ELSE Append(subs, RootAgent(recipe, values))
              /\ filled' = [i \in DOMAIN built' |-> {}]
         ELSE stage' = "refused" /\ UNCHANGED <<built, filled>>
      /\ UNCHANGED <<recipe, given, registry, begun, ended, exited, state>>

-----------------------------------------------------------------------------
(***************************************************************************)
(* The run of a flow, the first pass of a loop, in one session.            *)
(***************************************************************************)
Turn(i) ==
  recipe.execution \in {"sequential", "loop"} => \A j \in 1 .. i - 1 : j \in ended

\* userPromptInjectedAgent renders its prompt with the state, and fails when a
\* key has no value; prepareInvocation renders the instruction, and leaves such
\* keys empty.
SubRuns(i) ==
  /\ stage = "built" /\ recipe.execution \in Flows /\ recipe.subs # <<>>
  /\ i \notin begun /\ Turn(i)
  /\ IF built[i].prompt \subseteq state
     THEN /\ begun' = begun \cup {i}
          /\ filled' = [filled EXCEPT ![i] = built[i].rendered \cup (built[i].left \cap state)]
          /\ UNCHANGED stage
     ELSE stage' = "unrendered" /\ UNCHANGED <<begun, filled>>
  /\ UNCHANGED <<recipe, given, registry, built, option, ended, exited, state>>

\* An answer, which saveOutputState saves; or a tool that asks for the end of the
\* loop: the agent ends at once, without an answer, and the flow goes on with the
\* next one; or an error, which ends the flow.
SubEnds(i) ==
  /\ stage = "built" /\ i \in begun \ ended
  /\ \/ /\ ended' = ended \cup {i}
        /\ state' = state \cup ({built[i].output} \ {""})
        /\ UNCHANGED <<exited, stage>>
     \/ /\ built[i].tools # <<>>
        /\ ended' = ended \cup {i} /\ exited' = exited \cup {i}
        /\ UNCHANGED <<state, stage>>
     \/ stage' = "failed" /\ UNCHANGED <<ended, exited, state>>
  /\ UNCHANGED <<recipe, given, registry, built, option, begun, filled>>

RNext ==
  \/ Build
  \/ \E i \in DOMAIN built : SubRuns(i) \/ SubEnds(i)

RSpec == RInit /\ [][RNext]_rvars

-----------------------------------------------------------------------------
Values == resolveParams(recipe.params, given)

\* Everything the recipe names is registered, and the values fit the parameters.
Supplied ==
  /\ recipe.model \in Models \cup {""} /\ Range(recipe.tools) \subseteq DOMAIN registry
  /\ validateParamValues(recipe.params, Values)
  /\ \A i \in DOMAIN recipe.subs :
       /\ recipe.subs[i].model \in Models \cup {""}
       /\ Range(recipe.subs[i].tools) \subseteq DOMAIN registry
       /\ validateParamValues(recipe.subs[i].params, resolveParams(recipe.subs[i].params, Values))
  /\ (recipe.instruction.keys \cup recipe.prompt.keys) \subseteq DOMAIN Values

\* Every tool is registered under its own name.
OwnNames == \A t \in DOMAIN registry : registry[t] = t

\* What Validate accepts can be built: when the registries know every name and
\* every key has a value, Build does not fail half-way on a sub agent (its
\* branches for a missing model or an unknown mode are dead code), and the
\* session gets its compressor unless the model that is to summarize, the
\* context's own one or else the recipe's, is missing or unknown.  And every
\* agent that was built has a registered model and, where tools are registered
\* under their own names, can tell its tools apart, sub agents and registered
\* tools together: Validate compares keys, the agent looks tools up by name.
ValidBuilds ==
  /\ stage = "refused" /\ Validate(recipe) => ~ Supplied
  /\ option = "error" /\ Validate(recipe) => SummaryModel(recipe) \notin Models
  /\ \A i \in DOMAIN built : built[i].model \in Models /\ (OwnNames => Distinct(built[i].tools))

\* The outputs of the agents before i that gave an answer.
Outputs(i) == {built[j].output : j \in (1 .. i - 1) \ exited} \ {""}

\* In a sequential recipe a key that an earlier sub agent outputs, and that no
\* parameter fills, is filled with that output when a later agent runs, and
\* never the reason why a prompt cannot be rendered: Build keeps the keys it
\* does not know.  An agent that a tool ended has no output: its key may be
\* missing.
ChainFills ==
  recipe.execution = "sequential" =>
    \A i \in DOMAIN built :
      LET sub == recipe.subs[i]
          fromParams == DOMAIN resolveParams(sub.params, Values)
      IN  recipe.subs # <<>> =>
            /\ i \in begun =>
                 (sub.instruction.keys \cap (Outputs(i) \cup fromParams)) \subseteq filled[i]
            /\ (stage = "unrendered" /\ i \notin begun /\ Turn(i))
                 => ~ sub.prompt.keys \subseteq Outputs(i) \cup fromParams
===============================================================================
