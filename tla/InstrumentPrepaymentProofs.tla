------------------------ MODULE InstrumentPrepaymentProofs ------------------------
(***************************************************************************)
(* The prepayment chain for every set of bindings, processes and forms,    *)
(* every number of steps, mishaps and withdrawals.                         *)
(*                                                                         *)
(* What makes the invariants inductive is that a binding is run by one     *)
(* chain only, that the slot has one holder, and that each stage of a      *)
(* chain knows how many steps left and which is on record.                 *)
(***************************************************************************)
EXTENDS InstrumentPrepayment, TLAPS

ReadForms == {<<>>} \cup {extractRequiredFields(form) : form \in Forms}

Submissions == [step : 1 .. MaxSteps, reported : Int, fields : ReadForms]

\* The stages at which the row says PREPARING, unless an operator withdrew it.
Early == {"inspecting", "filling", "submitting", "awaiting", "exhausted", "writing", "readying"}
Running == Early \cup {"previewing", "failing"}
Chains == {"beginning"} \cup Running
Withdrawing == {"invalidating", "deleting"}

Codes ==
    {None, "BITREFILL_MCP_UNAVAILABLE", "BITREFILL_MCP_SCHEMA_UNSUPPORTED",
     "HUMAN_ACTION_REQUIRED", "BITREFILL_TIMEOUT", "PREPAYMENT_STEP_MISMATCH",
     "MALFORMED_RESPONSE", "SQLITE_CONSTRAINT", "ERROR"}

Calls ==
    [pc : {"idle"} \cup Chains \cup Withdrawing, binding : Bindings \cup {None},
     fields : ReadForms, step : 0 .. MaxSteps + 1, reported : Int, code : Codes]

ChainTypes ==
    /\ bindings \in [Bindings -> BindingRows \cup {None}]
    /\ secrets \subseteq Begun /\ withdrawn \subseteq Begun /\ died \subseteq Begun
    /\ call \in [Processes -> Calls]
    /\ submitted \in [Bindings -> Seq(Submissions)]
    /\ mishaps \in 0 .. MaxMishaps

\* What a stage of a chain or of a withdrawal knows of its binding.
CallSound(c) ==
    LET b == c.binding
        row == bindings[b]
        sent == Len(submitted[b])
    IN  /\ c.pc = "idle" <=> b = None
        /\ c.pc = "beginning" => row = None
        /\ c.pc \in Running \cup Withdrawing => row # None
        /\ c.pc = "inspecting" => sent = 0 /\ row.lastStep = 0
        /\ c.pc \in {"filling", "submitting", "awaiting"} => c.step \in 1 .. MaxSteps
        /\ c.pc = "filling" => row.lastStep = c.step - 1 /\ sent = c.step - 1
        /\ c.pc = "submitting" =>
              row.mutationDispatched /\ row.lastStep = c.step /\ sent = c.step - 1
        /\ c.pc = "awaiting" => row.lastStep = c.step /\ sent = c.step
        /\ c.pc \in Early => row.status = "PREPARING" \/ b \in withdrawn
        /\ c.pc = "readying" => b \in secrets \/ b \in withdrawn
        /\ c.pc = "previewing" => row.status # "PREPARING"
        /\ c.pc = "deleting" => b \in withdrawn

\* A binding is run by one chain.
OneChain ==
    \A x, y \in Processes :
        x # y /\ call[x].pc \in Chains /\ call[y].pc \in Chains => call[x].binding # call[y].binding

\* The slot is held by one binding: the unique index of the store.
OneHolder == \A b, c \in Holders : b = c

\* What left is on record, and the slot is kept for it.
SentSound(b) ==
    submitted[b] # <<>> =>
        /\ bindings[b] # None
        /\ bindings[b].mutationDispatched
        /\ Len(submitted[b]) <= bindings[b].lastStep
        /\ \A i \in 1 .. Len(submitted[b]) : submitted[b][i].step = i
        /\ b \in withdrawn \/ bindings[b].status \in Active

ReadySound(b) ==
    b \in Begun \ withdrawn /\ bindings[b].status = "READY" => bindings[b].digest /\ b \in secrets

PreparingSound(b) ==
    b \in Begun \ died /\ bindings[b].status = "PREPARING" =>
        \E x \in Processes : call[x].binding = b /\ call[x].pc \in Running

\* The inductive invariant.
ChainInv ==
    /\ ChainTypes
    /\ \A x \in Processes : CallSound(call[x])
    /\ OneChain
    /\ OneHolder
    /\ \A b \in Bindings : SentSound(b) /\ ReadySound(b) /\ PreparingSound(b)

-----------------------------------------------------------------------------
(* The constants, and what the operators return.                           *)

\* The constants are what they are taken for.
LEMMA ConstantFacts ==
    ASSUME PrepaymentAssumption
    PROVE  /\ MaxSteps \in Nat /\ MaxSteps > 0 /\ MaxMishaps \in Nat
           /\ None \notin Bindings /\ None \notin BindingRows
  BY DEF PrepaymentAssumption

\* A form is judged in one of three ways (satisfyPrepaymentFields).
LEMMA JudgedOneWay ==
    ASSUME NEW fields, NEW profile, NEW amount, NEW step
    PROVE  satisfyPrepaymentFields(fields, profile, amount, step)
               \in {"supported", "HUMAN_ACTION_REQUIRED", "BITREFILL_MCP_SCHEMA_UNSUPPORTED"}
  BY Zenon DEF satisfyPrepaymentFields

\* An answer that is read and is not the last one is the next step, with a form
\* of the provider (parsePrepaymentStepResult): no step is skipped or repeated.
LEMMA ReadIsNextStep ==
    ASSUME NEW step \in Int, NEW ids, NEW expected, NEW answer \in Answers(step),
           NEW read, read = parsePrepaymentStepResult(answer, step, ids, expected),
           read # Refused, read.kind # "final"
    PROVE  read.fields \in ReadForms /\ read.step = step + 1 /\ answer.step \in Int
<1>1. CASE answer.kind = "step"
  <2>1. answer.form \in Forms /\ answer.step \in Int
    BY <1>1 DEF Answers
  <2>2. read = ReadStep(answer, step, ids)
    BY <1>1 DEF parsePrepaymentStepResult
  <2>3. read = [kind |-> "next", fields |-> extractRequiredFields(answer.form), step |-> step + 1]
    BY <2>2 DEF ReadStep
  <2>4. extractRequiredFields(answer.form) \in ReadForms
    BY <2>1 DEF ReadForms
  <2> QED
    BY <2>1, <2>3, <2>4
<1>2. CASE answer.kind # "step"
  BY <1>2 DEF parsePrepaymentStepResult
<1> QED
  BY <1>1, <1>2

-----------------------------------------------------------------------------
(* Frames.                                                                 *)

\* A binding that holds the slot is admitted to it again: its status may be
\* written back.
LEMMA HolderIsAdmitted ==
    ASSUME OneHolder, NEW b \in Bindings, bindings[b] # None
    PROVE  Admitted(b, bindings[b].status)
  BY DEF OneHolder, Admitted, Holders

\* A step of one process that leaves rows and files alone keeps the invariant
\* when its own call stays sound and no chain leaves a row in PREPARING behind.
LEMMA CallStep ==
    ASSUME PrepaymentAssumption, ChainInv, NEW x \in Processes,
           call' \in [Processes -> Calls],
           \A y \in Processes \ {x} : call'[y] = call[y],
           UNCHANGED <<durable, submitted, withdrawn>>,
           mishaps' \in 0 .. MaxMishaps, mishaps' >= mishaps,
           died' = died \/ (call[x].pc \in Running /\ died' = died \cup {call[x].binding}),
           CallSound(call[x])',
           call'[x].pc \in Chains =>
               \A y \in Processes \ {x} :
                   call[y].pc \in Chains => call[y].binding # call'[x].binding,
           call[x].pc \notin Running \/ call[x].binding \in died'
               \/ (call'[x].pc \in Running /\ call'[x].binding = call[x].binding)
               \/ bindings[call[x].binding].status # "PREPARING"
    PROVE  ChainInv'
<1>0. /\ bindings' = bindings /\ secrets' = secrets
      /\ submitted' = submitted /\ withdrawn' = withdrawn
  BY DEF durable
<1>1. mishaps \in Nat /\ mishaps' \in Nat
  BY ConstantFacts DEF ChainInv, ChainTypes
<1>2. ChainTypes'
  <2>1. call[x].pc \in Running => call[x].binding \in Begun
    <3> SUFFICES ASSUME call[x].pc \in Running PROVE call[x].binding \in Begun
      OBVIOUS
    <3>1. CallSound(call[x]) /\ call[x] \in Calls
      BY DEF ChainInv, ChainTypes
    <3>2. call[x].binding \in Bindings
      BY <3>1 DEF CallSound, Calls, Running, Early
    <3> QED
      BY <3>1, <3>2 DEF CallSound, Begun
  <2> QED
    BY <1>0, <2>1 DEF ChainInv, ChainTypes, Begun
<1>3. \A y \in Processes : CallSound(call[y])'
  <2> SUFFICES ASSUME NEW y \in Processes, y # x PROVE CallSound(call[y])'
    OBVIOUS
  <2>1. CallSound(call[y]) /\ call'[y] = call[y]
    BY DEF ChainInv
  <2> QED
    BY <1>0, <1>1, <2>1 DEF CallSound
<1>4. OneChain'
  BY DEF ChainInv, OneChain
<1>5. OneHolder'
  BY <1>0 DEF ChainInv, OneHolder, Holders
<1>6. ASSUME NEW b \in Bindings PROVE (SentSound(b) /\ ReadySound(b) /\ PreparingSound(b))'
  <2>1. SentSound(b)' /\ ReadySound(b)'
    BY <1>0 DEF ChainInv, SentSound, ReadySound, Begun
  <2>2. PreparingSound(b)'
    <3> SUFFICES ASSUME bindings[b] # None, bindings[b].status = "PREPARING", b \notin died'
                 PROVE  \E y \in Processes : call'[y].binding = b /\ call'[y].pc \in Running
      BY <1>0 DEF PreparingSound, Begun
    <3>1. b \notin died
      OBVIOUS
    <3>2. PICK y \in Processes : call[y].binding = b /\ call[y].pc \in Running
      BY <3>1 DEF ChainInv, PreparingSound, Begun
    <3>3. call'[y].binding = b /\ call'[y].pc \in Running
      <4>1. CASE y # x
        BY <3>2, <4>1
      <4>2. CASE y = x
        BY <3>2, <4>2
      <4> QED
        BY <4>1, <4>2
    <3> QED
      BY <3>3
  <2> QED
    BY <2>1, <2>2
<1> QED
  BY <1>2, <1>3, <1>4, <1>5, <1>6 DEF ChainInv

\* A step of a chain that touches its own binding only.
LEMMA ChainStep ==
    ASSUME PrepaymentAssumption, ChainInv, NEW x \in Processes, NEW b \in Bindings,
           call[x].binding = b, call[x].pc \in Chains,
           call' \in [Processes -> Calls],
           \A y \in Processes \ {x} : call'[y] = call[y],
           call'[x].pc = "idle" \/ call'[x].binding = b,
           bindings' \in [Bindings -> BindingRows \cup {None}], bindings'[b] # None,
           submitted' \in [Bindings -> Seq(Submissions)],
           \A c \in Bindings \ {b} : bindings'[c] = bindings[c] /\ submitted'[c] = submitted[c],
           secrets \subseteq secrets', secrets' \subseteq secrets \cup {b},
           withdrawn' = withdrawn, died' = died, mishaps' = mishaps,
           Admitted(b, bindings'[b].status),
           CallSound(call[x])', SentSound(b)', ReadySound(b)', PreparingSound(b)'
    PROVE  ChainInv'
<1>1. ChainTypes'
  BY DEF ChainInv, ChainTypes, Begun
<1>2. \A y \in Processes \ {x} : call[y].pc \in Chains => call[y].binding # b
  BY DEF ChainInv, OneChain
<1>3. ASSUME NEW y \in Processes PROVE CallSound(call[y])'
  <2> SUFFICES ASSUME y # x PROVE CallSound(call[y])'
    OBVIOUS
  <2>1. CallSound(call[y]) /\ call'[y] = call[y] /\ call[y] \in Calls
    BY DEF ChainInv, ChainTypes
  <2>2. CASE call[y].pc \in Chains
    <3>1. call[y].binding \in Bindings \ {b}
      BY <1>2, <2>1, <2>2 DEF Calls, CallSound, Chains, Running, Early
    <3> DEFINE d == call[y].binding
    <3>3. bindings'[d] = bindings[d] /\ submitted'[d] = submitted[d] /\ (d \in secrets => d \in secrets')
      BY <3>1
    <3> QED
      BY <2>1, <3>3 DEF CallSound
  <2>3. CASE call[y].pc \notin Chains
    <3>1. call[y].pc \in {"idle"} \cup Withdrawing
      BY <2>1, <2>3 DEF Calls
    <3>2. CASE call[y].pc = "idle"
      BY <2>1, <3>2 DEF CallSound, Running, Early, Withdrawing
    <3>3. CASE call[y].pc \in Withdrawing
      <4>1. call[y].binding \in Bindings
        BY <2>1, <3>3 DEF Calls, CallSound, Withdrawing
      <4>2. bindings'[call[y].binding] # None
        BY <2>1, <3>3, <4>1 DEF CallSound
      <4> QED
        BY <2>1, <3>3, <4>2 DEF CallSound, Running, Early, Withdrawing
    <3> QED
      BY <3>1, <3>2, <3>3
  <2> QED
    BY <2>2, <2>3
<1>4. OneChain'
  <2> SUFFICES ASSUME NEW y \in Processes, NEW z \in Processes, y # z,
                      call'[y].pc \in Chains, call'[z].pc \in Chains
               PROVE  call'[y].binding # call'[z].binding
    BY DEF OneChain
  <2>1. "idle" \notin Chains
    BY DEF Chains, Running, Early
  <2>2. CASE y = x
    BY <1>2, <2>1, <2>2
  <2>3. CASE z = x
    BY <1>2, <2>1, <2>3
  <2>4. CASE y # x /\ z # x
    <3>1. call'[y] = call[y] /\ call'[z] = call[z]
      BY <2>4
    <3> QED
      BY <3>1 DEF ChainInv, OneChain
  <2> QED
    BY <2>2, <2>3, <2>4
<1>5. OneHolder'
  <2> SUFFICES ASSUME NEW c \in Bindings, NEW d \in Bindings,
                      bindings'[c] # None, bindings'[c].status \in Active,
                      bindings'[d] # None, bindings'[d].status \in Active
               PROVE  c = d
    BY DEF OneHolder, Holders
  <2>1. \A e \in Bindings \ {b} :
           bindings'[e] # None /\ bindings'[e].status \in Active => e \in Holders
    BY DEF Holders
  <2>2. bindings'[b].status \in Active => Holders \subseteq {b}
    BY DEF Admitted
  <2>3. CASE bindings'[b].status \in Active
    <3>1. Holders \subseteq {b}
      BY <2>2, <2>3
    <3>2. c = b
      BY <2>1, <3>1
    <3>3. d = b
      BY <2>1, <3>1
    <3> QED
      BY <3>2, <3>3
  <2>4. CASE ~ (bindings'[b].status \in Active)
    <3>1. c \in Holders /\ d \in Holders
      BY <2>1, <2>4
    <3> QED
      BY <3>1 DEF ChainInv, OneHolder
  <2> QED
    BY <2>3, <2>4
<1>6. ASSUME NEW c \in Bindings PROVE (SentSound(c) /\ ReadySound(c) /\ PreparingSound(c))'
  <2> SUFFICES ASSUME c # b PROVE (SentSound(c) /\ ReadySound(c) /\ PreparingSound(c))'
    OBVIOUS
  <2>1. bindings'[c] = bindings[c] /\ submitted'[c] = submitted[c] /\ (c \in secrets => c \in secrets')
    OBVIOUS
  <2>2. SentSound(c) /\ ReadySound(c) /\ PreparingSound(c)
    BY DEF ChainInv
  <2>3. SentSound(c)' /\ ReadySound(c)'
    BY <2>1, <2>2 DEF SentSound, ReadySound, Begun
  <2>4. PreparingSound(c)'
    <3> SUFFICES ASSUME bindings[c] # None, bindings[c].status = "PREPARING", c \notin died
                 PROVE  \E y \in Processes : call'[y].binding = c /\ call'[y].pc \in Running
      BY <2>1 DEF PreparingSound, Begun
    <3>1. PICK y \in Processes : call[y].binding = c /\ call[y].pc \in Running
      BY <2>2 DEF PreparingSound, Begun
    <3> QED
      BY <3>1
  <2> QED
    BY <2>3, <2>4
<1> QED
  BY <1>1, <1>3, <1>4, <1>5, <1>6 DEF ChainInv

\* The three ways in which a step changes its call.
LEMMA GoesFacts ==
    ASSUME call \in [Processes -> Calls], NEW x \in Processes,
           NEW pc \in {"idle"} \cup Chains \cup Withdrawing, Goes(x, pc)
    PROVE  /\ call' \in [Processes -> Calls]
           /\ \A y \in Processes \ {x} : call'[y] = call[y]
           /\ call'[x].pc = pc /\ call'[x].binding = call[x].binding
           /\ call'[x].step = call[x].step
<1> DEFINE c == [call[x] EXCEPT !.pc = pc]
<1>1. call' = [call EXCEPT ![x] = c]
  BY DEF Goes
<1>2. call[x] \in Calls
  OBVIOUS
<1>3. /\ c \in Calls /\ c.pc = pc /\ c.binding = call[x].binding
      /\ c.step = call[x].step
  BY <1>2 DEF Calls
<1> HIDE DEF c
<1>4. call' \in [Processes -> Calls] /\ \A y \in Processes \ {x} : call'[y] = call[y]
  BY <1>1, <1>3
<1>5. call'[x] = c
  BY <1>1
<1> QED
  BY <1>3, <1>4, <1>5

\* A process that does nothing.
LEMMA IdleIsCall ==
    ASSUME PrepaymentAssumption
    PROVE  Idle \in Calls /\ Idle.pc = "idle" /\ Idle.binding = None
  BY ConstantFacts DEF Idle, Calls, ReadForms, Codes

LEMMA EndsFacts ==
    ASSUME PrepaymentAssumption,
           call \in [Processes -> Calls], NEW x \in Processes, Ends(x)
    PROVE  /\ call' \in [Processes -> Calls]
           /\ \A y \in Processes \ {x} : call'[y] = call[y]
           /\ call'[x] = Idle /\ call'[x].pc = "idle"
           /\ CallSound(call[x])'
<1>1. Idle \in Calls /\ Idle.pc = "idle" /\ Idle.binding = None
  BY IdleIsCall
<1>2. call' = [call EXCEPT ![x] = Idle]
  BY DEF Ends
<1>3. /\ call' \in [Processes -> Calls]
      /\ \A y \in Processes \ {x} : call'[y] = call[y]
      /\ call'[x] = Idle
  BY <1>1, <1>2
<1>4. CallSound(call[x])'
  BY <1>1, <1>3 DEF CallSound, Running, Early, Withdrawing
<1> QED
  BY <1>1, <1>3, <1>4

LEMMA FailsFacts ==
    ASSUME call \in [Processes -> Calls], NEW x \in Processes,
           \E code \in Codes : Fails(x, code)
    PROVE  /\ call' \in [Processes -> Calls]
           /\ \A y \in Processes \ {x} : call'[y] = call[y]
           /\ call'[x].pc = "failing" /\ call'[x].binding = call[x].binding
<1>1. PICK code \in Codes : Fails(x, code)
  OBVIOUS
<1> DEFINE c == [call[x] EXCEPT !.pc = "failing", !.code = code]
<1>2. call' = [call EXCEPT ![x] = c]
  BY <1>1 DEF Fails
<1>3. call[x] \in Calls
  OBVIOUS
<1>4. c \in Calls /\ c.pc = "failing" /\ c.binding = call[x].binding
  BY <1>3 DEF Calls, Chains, Running
<1> HIDE DEF c
<1>5. call' \in [Processes -> Calls] /\ \A y \in Processes \ {x} : call'[y] = call[y]
  BY <1>2, <1>4
<1>6. call'[x] = c
  BY <1>2
<1> QED
  BY <1>4, <1>5, <1>6

\* A chain that fails needs to know nothing but that its row was begun.
LEMMA FailedIsSound ==
    ASSUME NEW x \in Processes, call'[x].pc = "failing",
           call'[x].binding # None, bindings'[call'[x].binding] # None
    PROVE  CallSound(call[x])'
  BY DEF CallSound, Running, Early, Withdrawing

\* What a step of a chain starts from.
LEMMA ChainFacts ==
    ASSUME PrepaymentAssumption, ChainInv, NEW x \in Processes, call[x].pc \in Chains
    PROVE  /\ call \in [Processes -> Calls] /\ call[x] \in Calls
           /\ call[x].binding \in Bindings
           /\ CallSound(call[x])
           /\ \A y \in Processes \ {x} : call[y].pc \in Chains => call[y].binding # call[x].binding
           /\ call[x].pc # "beginning" =>
                  /\ bindings[call[x].binding] # None
                  /\ bindings[call[x].binding] \in BindingRows
           /\ Admitted(call[x].binding, bindings[call[x].binding].status)
                  \/ call[x].pc = "beginning"
           /\ SentSound(call[x].binding) /\ ReadySound(call[x].binding)
           /\ PreparingSound(call[x].binding)
           /\ mishaps \in 0 .. MaxMishaps
<1>1. call \in [Processes -> Calls] /\ call[x] \in Calls /\ CallSound(call[x])
      /\ mishaps \in 0 .. MaxMishaps
  BY DEF ChainInv, ChainTypes
<1>2. call[x].binding \in Bindings
  BY <1>1 DEF Calls, CallSound, Chains, Running, Early
<1>3. \A y \in Processes \ {x} : call[y].pc \in Chains => call[y].binding # call[x].binding
  BY DEF ChainInv, OneChain
<1>4. call[x].pc # "beginning" =>
          bindings[call[x].binding] # None /\ bindings[call[x].binding] \in BindingRows
  BY <1>1, <1>2 DEF CallSound, Chains, ChainInv, ChainTypes
<1>5. Admitted(call[x].binding, bindings[call[x].binding].status) \/ call[x].pc = "beginning"
  BY <1>2, <1>4, HolderIsAdmitted DEF ChainInv
<1>6. SentSound(call[x].binding) /\ ReadySound(call[x].binding) /\ PreparingSound(call[x].binding)
  BY <1>2 DEF ChainInv
<1> QED
  BY <1>1, <1>2, <1>3, <1>4, <1>5, <1>6

\* While its chain runs, a slot in PREPARING is not abandoned.
LEMMA RunningKeepsIt ==
    ASSUME NEW x \in Processes, NEW b \in Bindings, call'[x].binding = b, call'[x].pc \in Running
    PROVE  PreparingSound(b)'
  BY DEF PreparingSound

-----------------------------------------------------------------------------
(* One lemma per action.                                                   *)

LEMMA StartPrepareStep ==
    ASSUME PrepaymentAssumption, ChainInv, NEW x \in Processes, StartPrepare(x)
    PROVE  ChainInv'
<1>1. PICK b \in Bindings :
          /\ bindings[b] = None
          /\ \A y \in Processes : call[y].binding # b
          /\ call' = [call EXCEPT ![x] = [Idle EXCEPT !.pc = "beginning", !.binding = b]]
  BY DEF StartPrepare
<1> DEFINE c == [Idle EXCEPT !.pc = "beginning", !.binding = b]
<1>2. c \in Calls /\ c.pc = "beginning" /\ c.binding = b
  <2>1. "beginning" \in Chains
    BY DEF Chains
  <2> QED
    BY <2>1, IdleIsCall DEF Calls
<1>3. call' = [call EXCEPT ![x] = c] /\ call \in [Processes -> Calls]
  BY <1>1 DEF ChainInv, ChainTypes
<1> HIDE DEF c
<1>4. call' \in [Processes -> Calls] /\ \A y \in Processes \ {x} : call'[y] = call[y]
  BY <1>2, <1>3
<1>5. call'[x] = c
  BY <1>3
<1>6. UNCHANGED <<durable, submitted, withdrawn, died>> /\ mishaps' = mishaps /\ call[x].pc = "idle"
  BY DEF StartPrepare
<1>7. CallSound(call[x])'
  BY <1>1, <1>2, <1>5, <1>6, ConstantFacts DEF CallSound, Running, Early, Withdrawing, durable
<1>8. call[x].pc \notin Running
  BY <1>6 DEF Running, Early
<1>9. mishaps' \in 0 .. MaxMishaps /\ mishaps' >= mishaps
  BY <1>6, ConstantFacts DEF ChainInv, ChainTypes
<1>10. \A y \in Processes \ {x} : call[y].pc \in Chains => call[y].binding # call'[x].binding
  BY <1>1, <1>2, <1>5
<1> QED
  BY <1>4, <1>6, <1>7, <1>8, <1>9, <1>10, CallStep

LEMMA BeginStep ==
    ASSUME PrepaymentAssumption, ChainInv, NEW x \in Processes, BeginInstrumentPrepayment(x)
    PROVE  ChainInv'
<1>0. call[x].pc = "beginning" /\ call[x].pc \in Chains /\ call[x].pc \notin Running
  BY DEF BeginInstrumentPrepayment, Chains, Running, Early
<1>1. PICK b \in Bindings : b = call[x].binding
  BY <1>0, ChainFacts
<1>2. secrets' = secrets /\ submitted' = submitted /\ withdrawn' = withdrawn /\ died' = died /\ mishaps' = mishaps
  BY DEF BeginInstrumentPrepayment
<1>3. /\ call \in [Processes -> Calls] /\ call[x] \in Calls /\ b \in Bindings /\ CallSound(call[x])
      /\ SentSound(b) /\ mishaps \in 0 .. MaxMishaps
  BY <1>1, <1>0, ChainFacts
<1>4. bindings[b] = None
  BY <1>1, <1>0, <1>3 DEF CallSound
<1>5. CASE Ends(x) /\ UNCHANGED bindings
  <2>1. UNCHANGED <<durable, submitted, withdrawn, died>>
    BY <1>2, <1>5 DEF durable
  <2>2. mishaps' \in 0 .. MaxMishaps /\ mishaps' >= mishaps
    BY <1>2, <1>3, ConstantFacts
  <2>3. "idle" \notin Chains /\ call[x].pc \notin Running
    BY <1>1, <1>2 DEF BeginInstrumentPrepayment, Chains, Running, Early
  <2> QED
    BY <1>0, <1>3, <1>5, <2>1, <2>2, <2>3, EndsFacts, CallStep
<1>6. CASE /\ Holders = {}
           /\ bindings' = [bindings EXCEPT ![call[x].binding] =
                 [status |-> "PREPARING", mutationDispatched |-> FALSE, lastStep |-> 0,
                  digest |-> FALSE]]
           /\ Goes(x, "inspecting")
  <2> DEFINE row == [status |-> "PREPARING", mutationDispatched |-> FALSE, lastStep |-> 0,
                     digest |-> FALSE]
  <2>1. row \in BindingRows /\ row # None /\ row.status = "PREPARING" /\ row.lastStep = 0
    <3>1. 0 \in 0 .. MaxSteps /\ "PREPARING" \in Active
      BY ConstantFacts DEF Active
    <3>2. row \in BindingRows
      BY <3>1 DEF BindingRows
    <3> QED
      BY <3>2, ConstantFacts
  <2>2. bindings \in [Bindings -> BindingRows \cup {None}] /\ submitted \in [Bindings -> Seq(Submissions)]
    BY DEF ChainInv, ChainTypes
  <2>3. bindings' = [bindings EXCEPT ![b] = row]
    BY <1>1, <1>6
  <2> HIDE DEF row
  <2>4. /\ bindings' \in [Bindings -> BindingRows \cup {None}]
        /\ \A c \in Bindings \ {b} : bindings'[c] = bindings[c]
        /\ bindings'[b] = row
    BY <1>3, <2>1, <2>2, <2>3
  <2>5. /\ call' \in [Processes -> Calls] /\ \A y \in Processes \ {x} : call'[y] = call[y]
        /\ call'[x].pc = "inspecting" /\ call'[x].binding = b
    BY <1>1, <1>3, <1>6, GoesFacts DEF Chains, Running, Early
  <2>6. submitted[b] = <<>> /\ submitted'[b] = <<>>
    BY <1>2, <1>3, <1>4 DEF SentSound
  <2>7. CallSound(call[x])'
    <3>1. Len(submitted'[b]) = 0
      BY <2>6
    <3>2. b # None
      BY <1>3, ConstantFacts
    <3> QED
      BY <2>1, <2>4, <2>5, <3>1, <3>2 DEF CallSound, Running, Early, Withdrawing
  <2>8. SentSound(b)' /\ ReadySound(b)' /\ PreparingSound(b)'
    <3>1. SentSound(b)'
      BY <2>6 DEF SentSound
    <3>2. ReadySound(b)'
      BY <2>1, <2>4 DEF ReadySound
    <3>3. PreparingSound(b)'
      BY <1>3, <2>5, RunningKeepsIt DEF Running, Early
    <3> QED
      BY <3>1, <3>2, <3>3
  <2>9. Admitted(b, bindings'[b].status)
    BY <1>6 DEF Admitted
  <2>10. bindings'[b] # None /\ secrets' = secrets /\ withdrawn' = withdrawn /\ died' = died /\ mishaps' = mishaps
    BY <1>2, <2>1, <2>4
  <2>11. submitted' \in [Bindings -> Seq(Submissions)] /\ \A c \in Bindings \ {b} : submitted'[c] = submitted[c]
    BY <1>2, <2>2
  <2> QED
    BY <1>1, <1>0, <1>3, <2>4, <2>5, <2>7, <2>8, <2>9, <2>10, <2>11, ChainStep
<1> QED
  BY <1>5, <1>6 DEF BeginInstrumentPrepayment

LEMMA InspectStep ==
    ASSUME PrepaymentAssumption, ChainInv, NEW x \in Processes, InspectProduct(x)
    PROVE  ChainInv'
<1>0. call[x].pc = "inspecting" /\ call[x].pc \in Chains
  BY DEF InspectProduct, Chains, Running, Early
<1>1. PICK b \in Bindings : b = call[x].binding
  BY <1>0, ChainFacts
<1>2. UNCHANGED <<durable, submitted, withdrawn, died>> /\ mishaps' = mishaps
  BY DEF InspectProduct
<1>3. /\ call \in [Processes -> Calls] /\ call[x] \in Calls /\ b \in Bindings /\ CallSound(call[x])
      /\ \A y \in Processes \ {x} : call[y].pc \in Chains => call[y].binding # b
      /\ bindings[b] # None /\ mishaps \in 0 .. MaxMishaps
  BY <1>1, <1>0, ChainFacts
<1>4. mishaps' \in 0 .. MaxMishaps /\ mishaps' >= mishaps
  BY <1>2, <1>3, ConstantFacts
<1>5. bindings' = bindings /\ submitted' = submitted /\ withdrawn' = withdrawn
  BY <1>2 DEF durable
<1>6. b # None
  BY <1>3, ConstantFacts
<1>7. CASE \E code \in Codes : Fails(x, code)
  <2>1. /\ call' \in [Processes -> Calls] /\ \A y \in Processes \ {x} : call'[y] = call[y]
        /\ call'[x].pc = "failing" /\ call'[x].binding = b
    BY <1>1, <1>3, <1>7, FailsFacts
  <2>2. CallSound(call[x])'
    BY <1>3, <1>5, <1>6, <2>1, FailedIsSound
  <2>3. call'[x].pc \in Running
    BY <2>1 DEF Running
  <2> QED
    BY <1>1, <1>2, <1>3, <1>4, <2>1, <2>2, <2>3, CallStep
<1>8. CASE \E form \in Forms :
              call' = [call EXCEPT ![x].pc = "filling", ![x].fields = extractRequiredFields(form),
                                   ![x].step = FirstStep]
  <2>1. PICK form \in Forms :
              call' = [call EXCEPT ![x].pc = "filling", ![x].fields = extractRequiredFields(form),
                                   ![x].step = FirstStep]
    BY <1>8
  <2> DEFINE fields == extractRequiredFields(form)
             c == [call[x] EXCEPT !.pc = "filling", !.fields = fields, !.step = FirstStep]
  <2>2. fields \in ReadForms
    BY DEF ReadForms
  <2>3. call' = [call EXCEPT ![x] = c]
    BY <2>1
  <2> HIDE DEF fields
  <2>4. c \in Calls /\ c.pc = "filling" /\ c.binding = b /\ c.step = 1
    <3>1. "filling" \in Chains /\ FirstStep = 1 /\ 1 \in 0 .. MaxSteps + 1
      BY ConstantFacts DEF Chains, Running, Early, FirstStep
    <3> QED
      BY <1>1, <1>3, <2>2, <3>1 DEF Calls
  <2> HIDE DEF c
  <2>5. call' \in [Processes -> Calls] /\ \A y \in Processes \ {x} : call'[y] = call[y]
    BY <1>3, <2>3, <2>4
  <2>6. call'[x] = c
    BY <1>3, <2>3
  <2>7. CallSound(call[x])'
    <3>1. Len(submitted[b]) = 0 /\ bindings[b].lastStep = 0
          /\ (bindings[b].status = "PREPARING" \/ b \in withdrawn)
      BY <1>1, <1>0, <1>3 DEF CallSound, Early
    <3>2. 1 \in 1 .. MaxSteps
      BY ConstantFacts
    <3> QED
      BY <1>3, <1>5, <1>6, <2>4, <2>6, <3>1, <3>2 DEF CallSound, Running, Early, Withdrawing
  <2>8. call'[x].pc \in Running /\ call'[x].binding = b
    BY <2>4, <2>6 DEF Running, Early
  <2> QED
    BY <1>1, <1>2, <1>3, <1>4, <2>5, <2>7, <2>8, CallStep
<1>9. \/ Fails(x, "BITREFILL_MCP_UNAVAILABLE") \/ Fails(x, "BITREFILL_MCP_SCHEMA_UNSUPPORTED")
      \/ \E form \in Forms :
              call' = [call EXCEPT ![x].pc = "filling", ![x].fields = extractRequiredFields(form),
                                   ![x].step = FirstStep]
  BY DEF InspectProduct
<1> QED
  BY <1>7, <1>8, <1>9 DEF Codes

LEMMA FillSupportedStep ==
    ASSUME PrepaymentAssumption, ChainInv, NEW x \in Processes, FillSupported(x)
    PROVE  ChainInv'
<1>1. call[x].pc = "filling" /\ call[x].pc \in Chains
  BY DEF FillSupported, Chains, Running, Early
<1>2. PICK b \in Bindings : b = call[x].binding
  BY <1>1, ChainFacts
<1>3. /\ call \in [Processes -> Calls] /\ call[x] \in Calls /\ CallSound(call[x])
      /\ SentSound(b) /\ ReadySound(b) /\ bindings[b] # None /\ bindings[b] \in BindingRows
      /\ Admitted(b, bindings[b].status)
  BY <1>1, <1>2, ChainFacts
<1>4. secrets' = secrets /\ submitted' = submitted /\ withdrawn' = withdrawn /\ died' = died /\ mishaps' = mishaps
  BY DEF FillSupported
<1>5. call[x].step \in 1 .. MaxSteps /\ Len(submitted[b]) = call[x].step - 1
      /\ bindings[b].lastStep = call[x].step - 1
      /\ (bindings[b].status = "PREPARING" \/ b \in withdrawn)
  BY <1>1, <1>2, <1>3 DEF CallSound, Early
<1>6. PICK n \in 1 .. MaxSteps : n = call[x].step
  BY <1>5
<1> DEFINE row == [bindings[b] EXCEPT !.mutationDispatched = TRUE, !.lastStep = n]
<1>7. bindings' = [bindings EXCEPT ![b] = row]
  BY <1>2, <1>6 DEF FillSupported
<1>8. /\ row \in BindingRows /\ row.mutationDispatched /\ row.lastStep = n
      /\ row.status = bindings[b].status /\ row.digest = bindings[b].digest
  <2>1. n \in 0 .. MaxSteps
    BY <1>6, ConstantFacts
  <2> QED
    BY <1>3, <2>1 DEF BindingRows
<1> HIDE DEF row
<1>9. bindings \in [Bindings -> BindingRows \cup {None}] /\ submitted \in [Bindings -> Seq(Submissions)]
  BY DEF ChainInv, ChainTypes
<1>10. /\ bindings' \in [Bindings -> BindingRows \cup {None}]
       /\ \A c \in Bindings \ {b} : bindings'[c] = bindings[c]
       /\ bindings'[b] = row /\ bindings'[b] # None
  BY <1>7, <1>8, <1>9, ConstantFacts
<1>11. /\ call' \in [Processes -> Calls] /\ \A y \in Processes \ {x} : call'[y] = call[y]
       /\ call'[x].pc = "submitting" /\ call'[x].binding = b /\ call'[x].step = n
  <2>1. Goes(x, "submitting") /\ "submitting" \in Chains
    BY DEF FillSupported, Chains, Running, Early
  <2> QED
    BY <1>2, <1>3, <1>6, <2>1, GoesFacts
<1>12. CallSound(call[x])'
  <2>1. b # None
    BY ConstantFacts
  <2>2. Len(submitted'[b]) = n - 1 /\ (row.status = "PREPARING" \/ b \in withdrawn')
    BY <1>4, <1>5, <1>6, <1>8
  <2> QED
    BY <1>6, <1>8, <1>10, <1>11, <2>1, <2>2 DEF CallSound, Running, Early, Withdrawing
<1>13. SentSound(b)'
  BY <1>3, <1>4, <1>5, <1>6, <1>8, <1>10 DEF SentSound
<1>15. ReadySound(b)'
  BY <1>3, <1>4, <1>8, <1>10 DEF ReadySound, Begun
<1>14. PreparingSound(b)'
  BY <1>11, RunningKeepsIt DEF Running, Early
<1>16. Admitted(b, bindings'[b].status)
  BY <1>3, <1>8, <1>10
<1> QED
  BY <1>1, <1>2, <1>4, <1>9, <1>10, <1>11, <1>12, <1>13, <1>14, <1>15, <1>16, ChainStep

\* A chain that sets the status of its row and ends or fails: the row keeps what
\* it says of the dispatch, and the slot stays taken by what left.
LEMMA StatusStep ==
    ASSUME PrepaymentAssumption, ChainInv, NEW x \in Processes,
           call[x].pc \in Running, NEW status,
           status \in {"AMBIGUOUS", "INVALIDATED"} \/ status = bindings[call[x].binding].status,
           status = "INVALIDATED" => submitted[call[x].binding] = <<>>
               \/ status = bindings[call[x].binding].status,
           Admitted(call[x].binding, status), Update(call[x].binding, status),
           UNCHANGED <<secrets, submitted, withdrawn, died, mishaps>>,
           (\E code \in Codes : Fails(x, code)) \/ (Ends(x) /\ status # "PREPARING")
    PROVE  ChainInv'
<1>1. call[x].pc \in Chains /\ call[x].pc # "beginning"
  BY DEF Chains, Running, Early
<1>2. PICK b \in Bindings : b = call[x].binding
  BY <1>1, ChainFacts
<1>3. /\ call \in [Processes -> Calls] /\ call[x] \in Calls
      /\ SentSound(b) /\ ReadySound(b) /\ bindings[b] # None /\ bindings[b] \in BindingRows
  BY <1>1, <1>2, ChainFacts
<1> DEFINE row == [bindings[b] EXCEPT !.status = status]
<1>4. bindings' = [bindings EXCEPT ![b] = row]
  BY <1>2 DEF Update
<1>5. /\ row \in BindingRows /\ row.mutationDispatched = bindings[b].mutationDispatched
      /\ row.lastStep = bindings[b].lastStep /\ row.status = status
      /\ row.digest = bindings[b].digest
  <2>1. status \in Active \cup {"INVALIDATED"}
    BY <1>2, <1>3 DEF BindingRows, Active
  <2> QED
    BY <1>3, <2>1 DEF BindingRows
<1> HIDE DEF row
<1>6. bindings \in [Bindings -> BindingRows \cup {None}] /\ submitted \in [Bindings -> Seq(Submissions)]
  BY DEF ChainInv, ChainTypes
<1>7. /\ bindings' \in [Bindings -> BindingRows \cup {None}]
      /\ \A c \in Bindings \ {b} : bindings'[c] = bindings[c]
      /\ bindings'[b] = row /\ bindings'[b] # None
  BY <1>4, <1>5, <1>6, ConstantFacts
<1>8. SentSound(b)'
  <2> SUFFICES ASSUME submitted[b] # <<>>
               PROVE  /\ row.mutationDispatched /\ Len(submitted[b]) <= row.lastStep
                      /\ \A i \in 1 .. Len(submitted[b]) : submitted[b][i].step = i
                      /\ b \in withdrawn \/ row.status \in Active
    BY <1>7 DEF SentSound
  <2>1. status \in {"AMBIGUOUS"} \/ status = bindings[b].status
    BY <1>2
  <2> QED
    BY <1>3, <1>5, <2>1 DEF SentSound, Active
<1>9. ReadySound(b)'
  BY <1>2, <1>3, <1>5, <1>7 DEF ReadySound, Begun
<1>10. Admitted(b, bindings'[b].status)
  BY <1>2, <1>5, <1>7
<1>11. /\ call' \in [Processes -> Calls] /\ \A y \in Processes \ {x} : call'[y] = call[y]
       /\ call'[x].pc = "idle" \/ call'[x].binding = b
       /\ CallSound(call[x])' /\ PreparingSound(b)'
  <2>1. CASE \E code \in Codes : Fails(x, code)
    <3>1. /\ call' \in [Processes -> Calls] /\ \A y \in Processes \ {x} : call'[y] = call[y]
          /\ call'[x].pc = "failing" /\ call'[x].binding = b
      BY <1>2, <1>3, <2>1, FailsFacts
    <3>2. b # None
      BY ConstantFacts
    <3>3. CallSound(call[x])'
      BY <1>7, <3>1, <3>2, FailedIsSound
    <3>4. PreparingSound(b)'
      BY <3>1, RunningKeepsIt DEF Running
    <3> QED
      BY <3>1, <3>3, <3>4
  <2>2. CASE Ends(x) /\ status # "PREPARING"
    <3>1. PreparingSound(b)'
      BY <1>5, <1>7, <2>2 DEF PreparingSound
    <3> QED
      BY <1>3, <2>2, <3>1, EndsFacts
  <2> QED
    BY <2>1, <2>2
<1> QED
  BY <1>1, <1>2, <1>6, <1>7, <1>8, <1>9, <1>10, <1>11, ChainStep

\* A chain that fails and leaves everything else as it is.
LEMMA FailStep ==
    ASSUME PrepaymentAssumption, ChainInv, NEW x \in Processes,
           call[x].pc \in Running, \E code \in Codes : Fails(x, code),
           UNCHANGED <<durable, submitted, withdrawn, died>>,
           mishaps' = mishaps \/ (mishaps' = mishaps + 1 /\ mishaps < MaxMishaps)
    PROVE  ChainInv'
<1>1. call[x].pc \in Chains /\ call[x].pc # "beginning"
  BY DEF Chains, Running, Early
<1>2. PICK b \in Bindings : b = call[x].binding
  BY <1>1, ChainFacts
<1>3. /\ call \in [Processes -> Calls] /\ bindings[b] # None /\ mishaps \in 0 .. MaxMishaps
      /\ \A y \in Processes \ {x} : call[y].pc \in Chains => call[y].binding # b
  BY <1>1, <1>2, ChainFacts
<1>4. mishaps' \in 0 .. MaxMishaps /\ mishaps' >= mishaps
  BY <1>3, ConstantFacts
<1>5. /\ call' \in [Processes -> Calls] /\ \A y \in Processes \ {x} : call'[y] = call[y]
      /\ call'[x].pc = "failing" /\ call'[x].binding = b
  BY <1>2, <1>3, FailsFacts
<1>6. CallSound(call[x])'
  <2>1. b # None /\ bindings'[b] # None
    BY <1>3, ConstantFacts DEF durable
  <2> QED
    BY <1>5, <2>1, FailedIsSound
<1>7. call'[x].pc \in Running
  BY <1>5 DEF Running
<1> QED
  BY <1>2, <1>3, <1>4, <1>5, <1>6, <1>7, CallStep

LEMMA FillUnsupportedStep ==
    ASSUME PrepaymentAssumption, ChainInv, NEW x \in Processes, FillUnsupported(x)
    PROVE  ChainInv'
<1>1. call[x].pc = "filling" /\ call[x].pc \in Running /\ call[x].pc \in Chains
  BY DEF FillUnsupported, Chains, Running, Early
<1>2. PICK b \in Bindings : b = call[x].binding
  BY <1>1, ChainFacts
<1>3. UNCHANGED <<secrets, submitted, withdrawn, died, mishaps>>
  BY DEF FillUnsupported
<1>4. \E code \in Codes : Fails(x, code)
  <2>1. PICK judged \in {"supported", "HUMAN_ACTION_REQUIRED", "BITREFILL_MCP_SCHEMA_UNSUPPORTED"} :
            judged = satisfyPrepaymentFields(call[x].fields, "profile", Amount, call[x].step)
    BY JudgedOneWay
  <2>2. Fails(x, judged) /\ judged # "supported"
    BY <2>1 DEF FillUnsupported
  <2> QED
    BY <2>1, <2>2 DEF Codes
<1>5. PICK status \in {"AMBIGUOUS", "INVALIDATED"} :
          status = IF bindings[b].mutationDispatched THEN "AMBIGUOUS" ELSE "INVALIDATED"
  OBVIOUS
<1>6. CASE UNCHANGED bindings
  BY <1>1, <1>3, <1>4, <1>6, FailStep DEF durable
<1>7. CASE Admitted(b, status) /\ Update(b, status)
  <2>1. status = "INVALIDATED" => submitted[b] = <<>>
    BY <1>1, <1>2, <1>5, ChainFacts DEF SentSound
  <2> QED
    BY <1>1, <1>2, <1>3, <1>4, <1>5, <1>7, <2>1, StatusStep
<1> QED
  BY <1>2, <1>5, <1>6, <1>7 DEF FillUnsupported

LEMMA ChainExhaustedStep ==
    ASSUME PrepaymentAssumption, ChainInv, NEW x \in Processes, ChainExhausted(x)
    PROVE  ChainInv'
<1>1. call[x].pc \in Running
  BY DEF ChainExhausted, Running, Early
<1>2. UNCHANGED <<secrets, submitted, withdrawn, died, mishaps>>
  BY DEF ChainExhausted
<1>3. \E code \in Codes : Fails(x, code)
  BY DEF ChainExhausted, Codes
<1>4. CASE UNCHANGED bindings
  BY <1>1, <1>2, <1>3, <1>4, FailStep DEF durable
<1>5. CASE Admitted(call[x].binding, "AMBIGUOUS") /\ Update(call[x].binding, "AMBIGUOUS")
  BY <1>1, <1>2, <1>3, <1>5, StatusStep
<1> QED
  BY <1>4, <1>5 DEF ChainExhausted

\* An outcome that the index refuses leaves a row that is not PREPARING.
LEMMA ChainFailedStep ==
    ASSUME PrepaymentAssumption, ChainInv, NEW x \in Processes, ChainFailed(x)
    PROVE  ChainInv'
<1>1. call[x].pc = "failing" /\ call[x].pc \in Running /\ call[x].pc \in Chains
  BY DEF ChainFailed, Chains, Running
<1>2. PICK b \in Bindings : b = call[x].binding
  BY <1>1, ChainFacts
<1>3. /\ call \in [Processes -> Calls] /\ call[x] \in Calls /\ SentSound(b)
      /\ bindings[b] # None /\ bindings[b] \in BindingRows /\ mishaps \in 0 .. MaxMishaps
      /\ Admitted(b, bindings[b].status)
  BY <1>1, <1>2, ChainFacts
<1>4. UNCHANGED <<secrets, submitted, withdrawn, died, mishaps>> /\ Ends(x)
  BY DEF ChainFailed
<1>5. PICK status : status = Outcome(bindings[b], call[x].code)
  OBVIOUS
<1>6. /\ status \in {"AMBIGUOUS", "INVALIDATED"} \/ status = bindings[b].status
      /\ status # "PREPARING"
      /\ status = "INVALIDATED" => ~ bindings[b].mutationDispatched
  BY <1>5 DEF Outcome
<1>7. status = "INVALIDATED" => submitted[b] = <<>>
  BY <1>3, <1>6 DEF SentSound
<1>8. CASE Admitted(b, status) /\ Update(b, status)
  BY <1>1, <1>2, <1>4, <1>6, <1>7, <1>8, StatusStep
<1>9. CASE ~ Admitted(b, status) /\ UNCHANGED bindings
  <2>1. bindings[b].status # "PREPARING"
    BY <1>3, <1>9 DEF Admitted, Active
  <2>2. mishaps' \in 0 .. MaxMishaps /\ mishaps' >= mishaps
    BY <1>3, <1>4, ConstantFacts
  <2>3. UNCHANGED <<durable, submitted, withdrawn>>
    BY <1>4, <1>9 DEF durable
  <2>4. "idle" \notin Chains
    BY DEF Chains, Running, Early
  <2> QED
    BY <1>2, <1>3, <1>4, <2>1, <2>2, <2>3, <2>4, EndsFacts, CallStep
<1> QED
  BY <1>2, <1>5, <1>8, <1>9 DEF ChainFailed

LEMMA ThrowsStep ==
    ASSUME PrepaymentAssumption, ChainInv, NEW x \in Processes, Throws(x)
    PROVE  ChainInv'
<1>1. call[x].pc \in Running /\ \E code \in Codes : Fails(x, code)
  BY DEF Throws, Running, Early, Codes
<1> QED
  BY <1>1, FailStep DEF Throws

LEMMA PreviewReadyStep ==
    ASSUME PrepaymentAssumption, ChainInv, NEW x \in Processes, PreviewReady(x)
    PROVE  ChainInv'
<1>1. call[x].pc = "previewing" /\ call[x].pc \in Chains
  BY DEF PreviewReady, Chains, Running
<1>2. bindings[call[x].binding].status # "PREPARING"
  BY <1>1, ChainFacts DEF CallSound
<1>3. mishaps' \in 0 .. MaxMishaps /\ mishaps' >= mishaps
  BY <1>1, ChainFacts, ConstantFacts DEF PreviewReady
<1>4. UNCHANGED <<durable, submitted, withdrawn, died>> /\ Ends(x)
  BY DEF PreviewReady
<1>5. "idle" \notin Chains
  BY DEF Chains, Running, Early
<1> QED
  BY <1>1, <1>2, <1>3, <1>4, <1>5, ChainFacts, EndsFacts, CallStep

LEMMA CrashStep ==
    ASSUME PrepaymentAssumption, ChainInv, NEW x \in Processes, Crash(x)
    PROVE  ChainInv'
<1>1. call \in [Processes -> Calls] /\ mishaps \in 0 .. MaxMishaps
  BY DEF ChainInv, ChainTypes
<1>2. mishaps' \in 0 .. MaxMishaps /\ mishaps' >= mishaps
  BY <1>1, ConstantFacts DEF Crash
<1>3. UNCHANGED <<durable, submitted, withdrawn>> /\ Ends(x)
  BY DEF Crash
<1>4. "idle" \notin Chains
  BY DEF Chains, Running, Early
<1>5. IF call[x].pc \in Running THEN died' = died \cup {call[x].binding} ELSE died' = died
  <2>1. call[x] \in Calls /\ call[x].pc # "idle"
    BY <1>1 DEF Crash
  <2>2. call[x].pc \in Running <=> call[x].pc \notin {"beginning", "invalidating", "deleting"}
    BY <2>1 DEF Calls, Chains, Running, Early, Withdrawing
  <2>3. died' = IF call[x].pc \in {"beginning", "invalidating", "deleting"} THEN died
                ELSE died \cup {call[x].binding}
    BY DEF Crash
  <2> QED
    BY <2>2, <2>3
<1> QED
  BY <1>1, <1>2, <1>3, <1>4, <1>5, EndsFacts, CallStep

LEMMA SubmitStep ==
    ASSUME PrepaymentAssumption, ChainInv, NEW x \in Processes, Submit(x)
    PROVE  ChainInv'
<1>1. call[x].pc = "submitting" /\ call[x].pc \in Chains
  BY DEF Submit, Chains, Running, Early
<1>2. PICK b \in Bindings : b = call[x].binding
  BY <1>1, ChainFacts
<1>3. /\ call \in [Processes -> Calls] /\ call[x] \in Calls /\ CallSound(call[x])
      /\ SentSound(b) /\ ReadySound(b) /\ bindings[b] # None /\ bindings[b] \in BindingRows
      /\ Admitted(b, bindings[b].status)
  BY <1>1, <1>2, ChainFacts
<1>4. bindings' = bindings /\ secrets' = secrets /\ withdrawn' = withdrawn /\ died' = died /\ mishaps' = mishaps
  BY DEF Submit, durable
<1>5. /\ call[x].step \in 1 .. MaxSteps /\ Len(submitted[b]) = call[x].step - 1
      /\ bindings[b].mutationDispatched /\ bindings[b].lastStep = call[x].step
      /\ (bindings[b].status = "PREPARING" \/ b \in withdrawn)
  BY <1>1, <1>2, <1>3 DEF CallSound, Early
<1>6. PICK sent \in Submissions :
          /\ sent.step = call[x].step
          /\ submitted' = [submitted EXCEPT ![b] = Append(@, sent)]
  <2> DEFINE s == [step |-> call[x].step, reported |-> call[x].reported, fields |-> call[x].fields]
  <2>1. s \in Submissions
    BY <1>3, <1>5 DEF Submissions, Calls
  <2>2. submitted' = [submitted EXCEPT ![b] = Append(@, s)] /\ s.step = call[x].step
    BY <1>2 DEF Submit
  <2> QED
    BY <2>1, <2>2
<1>7. bindings \in [Bindings -> BindingRows \cup {None}] /\ submitted \in [Bindings -> Seq(Submissions)]
  BY DEF ChainInv, ChainTypes
<1>8. /\ Append(submitted[b], sent) \in Seq(Submissions)
      /\ Len(Append(submitted[b], sent)) = call[x].step
      /\ \A i \in 1 .. Len(submitted[b]) : Append(submitted[b], sent)[i] = submitted[b][i]
      /\ Append(submitted[b], sent)[call[x].step] = sent
  <2>1. submitted[b] \in Seq(Submissions)
    BY <1>7
  <2> QED
    BY <1>5, <1>6, <2>1
<1>9. /\ submitted' \in [Bindings -> Seq(Submissions)]
      /\ \A c \in Bindings \ {b} : submitted'[c] = submitted[c]
      /\ submitted'[b] = Append(submitted[b], sent)
  BY <1>6, <1>7, <1>8
<1>10. /\ call' \in [Processes -> Calls] /\ \A y \in Processes \ {x} : call'[y] = call[y]
       /\ call'[x].pc = "awaiting" /\ call'[x].binding = b /\ call'[x].step = call[x].step
  <2>1. Goes(x, "awaiting") /\ "awaiting" \in Chains
    BY DEF Submit, Chains, Running, Early
  <2> QED
    BY <1>2, <1>3, <2>1, GoesFacts
<1>11. CallSound(call[x])'
  <2>1. b # None
    BY ConstantFacts
  <2>2. Len(submitted'[b]) = call'[x].step /\ call'[x].step \in 1 .. MaxSteps
        /\ bindings'[b].lastStep = call'[x].step
        /\ (bindings'[b].status = "PREPARING" \/ b \in withdrawn')
    BY <1>4, <1>5, <1>8, <1>9, <1>10
  <2> QED
    BY <1>3, <1>4, <1>10, <2>1, <2>2 DEF CallSound, Running, Early, Withdrawing
<1>12. SentSound(b)'
  <2>1. \A i \in 1 .. Len(submitted[b]) : submitted[b][i].step = i
    <3>1. CASE submitted[b] = <<>>
      BY <3>1
    <3>2. CASE submitted[b] # <<>>
      BY <1>3, <3>2 DEF SentSound
    <3> QED
      BY <3>1, <3>2
  <2>2. ASSUME NEW i \in 1 .. Len(submitted'[b]) PROVE submitted'[b][i].step = i
    <3>1. i \in 1 .. Len(submitted[b]) \/ i = call[x].step
      BY <1>5, <1>8, <1>9
    <3>2. CASE i \in 1 .. Len(submitted[b])
      BY <1>8, <1>9, <2>1, <3>2
    <3>3. CASE i = call[x].step
      BY <1>6, <1>8, <1>9, <3>3
    <3> QED
      BY <3>1, <3>2, <3>3
  <2>3. Len(submitted'[b]) <= bindings'[b].lastStep /\ (b \in withdrawn' \/ bindings'[b].status \in Active)
    BY <1>4, <1>5, <1>8, <1>9 DEF Active
  <2> QED
    BY <1>3, <1>4, <1>5, <2>2, <2>3 DEF SentSound
<1>13. ReadySound(b)' /\ PreparingSound(b)'
  <2>1. ReadySound(b)'
    BY <1>3, <1>4 DEF ReadySound, Begun
  <2> QED
    BY <1>10, <2>1, RunningKeepsIt DEF Running, Early
<1> QED
  BY <1>1, <1>2, <1>3, <1>4, <1>7, <1>9, <1>10, <1>11, <1>12, <1>13, ChainStep

LEMMA StepAnsweredStep ==
    ASSUME PrepaymentAssumption, ChainInv, NEW x \in Processes, StepAnswered(x)
    PROVE  ChainInv'
<1>1. call[x].pc = "awaiting" /\ call[x].pc \in Running /\ call[x].pc \in Chains
  BY DEF StepAnswered, Chains, Running, Early
<1>2. PICK b \in Bindings : b = call[x].binding
  BY <1>1, ChainFacts
<1>3. /\ call \in [Processes -> Calls] /\ call[x] \in Calls /\ CallSound(call[x])
      /\ \A y \in Processes \ {x} : call[y].pc \in Chains => call[y].binding # b
      /\ bindings[b] # None /\ mishaps \in 0 .. MaxMishaps
  BY <1>1, <1>2, ChainFacts
<1>4. UNCHANGED <<durable, submitted, withdrawn, died>> /\ mishaps' = mishaps
  BY DEF StepAnswered
<1>5. /\ bindings' = bindings /\ submitted' = submitted /\ withdrawn' = withdrawn
      /\ mishaps' \in 0 .. MaxMishaps /\ mishaps' >= mishaps
  BY <1>3, <1>4, ConstantFacts DEF durable
<1>6. /\ call[x].step \in 1 .. MaxSteps
      /\ Len(submitted[b]) = call[x].step /\ bindings[b].lastStep = call[x].step
      /\ (bindings[b].status = "PREPARING" \/ b \in withdrawn)
  BY <1>1, <1>2, <1>3 DEF CallSound, Early
<1>7. b # None
  BY ConstantFacts
<1>8. CASE \E code \in Codes : Fails(x, code)
  BY <1>1, <1>4, <1>8, FailStep
<1>9. CASE Goes(x, "writing")
  <2>1. /\ call' \in [Processes -> Calls] /\ \A y \in Processes \ {x} : call'[y] = call[y]
        /\ call'[x].pc = "writing" /\ call'[x].binding = b
    BY <1>2, <1>3, <1>9, GoesFacts DEF Chains, Running, Early
  <2>2. CallSound(call[x])'
    BY <1>3, <1>5, <1>6, <1>7, <2>1 DEF CallSound, Running, Early, Withdrawing
  <2>3. call'[x].pc \in Running
    BY <2>1 DEF Running, Early
  <2> QED
    BY <1>2, <1>3, <1>4, <1>5, <2>1, <2>2, <2>3, CallStep
<1>10. CASE \E answer \in Answers(call[x].step) :
              LET read == parsePrepaymentStepResult(answer, call[x].step,
                              submittedPrepaymentFieldIds(call[x].fields), [product |-> "card"])
              IN  /\ read # Refused /\ read.kind # "final"
                  /\ call' = [call EXCEPT
                          ![x].pc = IF IsLast(call[x].step) THEN "exhausted" ELSE "filling",
                          ![x].fields = read.fields, ![x].step = read.step,
                          ![x].reported = answer.step]
  <2>1. PICK n \in 1 .. MaxSteps : n = call[x].step
    BY <1>6
  <2>2. PICK ids : ids = submittedPrepaymentFieldIds(call[x].fields)
    OBVIOUS
  <2>3. PICK pc \in {"exhausted", "filling"} : pc = IF IsLast(n) THEN "exhausted" ELSE "filling"
    OBVIOUS
  <2>4. PICK answer \in Answers(n) :
              LET read == parsePrepaymentStepResult(answer, n, ids, [product |-> "card"])
              IN  /\ read # Refused /\ read.kind # "final"
                  /\ call' = [call EXCEPT ![x].pc = pc, ![x].fields = read.fields,
                                          ![x].step = read.step, ![x].reported = answer.step]
    BY <1>10, <2>1, <2>2, <2>3, Zenon
  <2> DEFINE read == parsePrepaymentStepResult(answer, n, ids, [product |-> "card"])
  <2>5. read.fields \in ReadForms /\ read.step = n + 1 /\ answer.step \in Int
    BY <2>1, <2>4, ReadIsNextStep
  <2>6. call' = [call EXCEPT ![x].pc = pc, ![x].fields = read.fields,
                              ![x].step = n + 1, ![x].reported = answer.step]
    BY <2>4, <2>5
  <2> HIDE DEF read
  <2> DEFINE c == [call[x] EXCEPT !.pc = pc, !.fields = read.fields, !.step = n + 1,
                                  !.reported = answer.step]
  <2>7. call' = [call EXCEPT ![x] = c]
    BY <2>6
  <2>8. c \in Calls /\ c.pc = pc /\ c.binding = b /\ c.step = n + 1
    <3>1. pc \in Chains /\ n + 1 \in 0 .. MaxSteps + 1
      BY <2>1, <2>3, ConstantFacts DEF Chains, Running, Early
    <3> QED
      BY <1>2, <1>3, <2>5, <3>1 DEF Calls
  <2> HIDE DEF c
  <2>9. call' \in [Processes -> Calls] /\ \A y \in Processes \ {x} : call'[y] = call[y]
    BY <1>3, <2>7, <2>8
  <2>10. call'[x] = c
    BY <1>3, <2>7
  <2>11. pc = "filling" => n + 1 \in 1 .. MaxSteps
    BY <2>1, <2>3, ConstantFacts DEF IsLast
  <2>12. CallSound(call[x])'
    <3>1. pc = "filling" => Len(submitted'[b]) = n + 1 - 1 /\ bindings'[b].lastStep = n + 1 - 1
      BY <1>5, <1>6, <2>1
    <3>2. bindings'[b] # None /\ (bindings'[b].status = "PREPARING" \/ b \in withdrawn')
      BY <1>3, <1>5, <1>6
    <3> QED
      BY <1>7, <2>3, <2>8, <2>10, <2>11, <3>1, <3>2 DEF CallSound, Running, Early, Withdrawing
  <2>13. call'[x].pc \in Running /\ call'[x].binding = b
    BY <2>3, <2>8, <2>10 DEF Running, Early
  <2> QED
    BY <1>2, <1>3, <1>4, <1>5, <2>9, <2>12, <2>13, CallStep
<1>11. Fails(x, "BITREFILL_TIMEOUT") \/ Fails(x, "PREPAYMENT_STEP_MISMATCH") => \E code \in Codes : Fails(x, code)
  BY DEF Codes
<1> QED
  BY <1>8, <1>9, <1>10, <1>11 DEF StepAnswered

LEMMA WriteStep ==
    ASSUME PrepaymentAssumption, ChainInv, NEW x \in Processes, WriteBillPaymentId(x)
    PROVE  ChainInv'
<1>1. call[x].pc = "writing" /\ call[x].pc \in Running /\ call[x].pc \in Chains
  BY DEF WriteBillPaymentId, Chains, Running, Early
<1>2. PICK b \in Bindings : b = call[x].binding
  BY <1>1, ChainFacts
<1>3. /\ call \in [Processes -> Calls] /\ call[x] \in Calls /\ CallSound(call[x])
      /\ SentSound(b) /\ ReadySound(b) /\ bindings[b] # None
      /\ Admitted(b, bindings[b].status)
  BY <1>1, <1>2, ChainFacts
<1>4. bindings' = bindings /\ submitted' = submitted /\ withdrawn' = withdrawn /\ died' = died /\ mishaps' = mishaps
  BY DEF WriteBillPaymentId
<1>5. CASE secrets' = secrets \cup {b} /\ Goes(x, "readying")
  <2>1. /\ call' \in [Processes -> Calls] /\ \A y \in Processes \ {x} : call'[y] = call[y]
        /\ call'[x].pc = "readying" /\ call'[x].binding = b
    BY <1>2, <1>3, <1>5, GoesFacts DEF Chains, Running, Early
  <2>2. bindings[b].status = "PREPARING" \/ b \in withdrawn
    BY <1>1, <1>2, <1>3 DEF CallSound, Early
  <2>3. CallSound(call[x])'
    BY <1>3, <1>4, <1>5, <2>1, <2>2, ConstantFacts DEF CallSound, Running, Early, Withdrawing
  <2>4. SentSound(b)'
    BY <1>3, <1>4 DEF SentSound
  <2>5. ReadySound(b)'
    BY <1>3, <1>4, <1>5 DEF ReadySound, Begun
  <2>6. PreparingSound(b)'
    BY <2>1, RunningKeepsIt DEF Running, Early
  <2>7. bindings \in [Bindings -> BindingRows \cup {None}] /\ submitted \in [Bindings -> Seq(Submissions)]
    BY DEF ChainInv, ChainTypes
  <2> QED
    BY <1>1, <1>2, <1>3, <1>4, <1>5, <2>1, <2>3, <2>4, <2>5, <2>6, <2>7, ChainStep
<1>6. CASE UNCHANGED secrets /\ Fails(x, "MALFORMED_RESPONSE")
  <2>1. \E code \in Codes : Fails(x, code)
    BY <1>6 DEF Codes
  <2> QED
    BY <1>1, <1>4, <1>6, <2>1, FailStep DEF durable
<1> QED
  BY <1>2, <1>5, <1>6 DEF WriteBillPaymentId

LEMMA BecomeReadyStep ==
    ASSUME PrepaymentAssumption, ChainInv, NEW x \in Processes, BecomeReady(x)
    PROVE  ChainInv'
<1>1. call[x].pc = "readying" /\ call[x].pc \in Running /\ call[x].pc \in Chains
  BY DEF BecomeReady, Chains, Running, Early
<1>2. PICK b \in Bindings : b = call[x].binding
  BY <1>1, ChainFacts
<1>3. /\ call \in [Processes -> Calls] /\ call[x] \in Calls /\ CallSound(call[x])
      /\ SentSound(b) /\ bindings[b] # None /\ bindings[b] \in BindingRows
  BY <1>1, <1>2, ChainFacts
<1>4. secrets' = secrets /\ submitted' = submitted /\ withdrawn' = withdrawn /\ died' = died /\ mishaps' = mishaps
  BY DEF BecomeReady
<1>5. CASE /\ Admitted(b, "READY")
           /\ bindings' = [bindings EXCEPT ![b].status = "READY", ![b].digest = TRUE]
           /\ Goes(x, "previewing")
  <2> DEFINE row == [bindings[b] EXCEPT !.status = "READY", !.digest = TRUE]
  <2>1. bindings' = [bindings EXCEPT ![b] = row]
    BY <1>5
  <2>2. /\ row \in BindingRows /\ row.mutationDispatched = bindings[b].mutationDispatched
        /\ row.lastStep = bindings[b].lastStep /\ row.status = "READY" /\ row.digest
    BY <1>3 DEF BindingRows, Active
  <2> HIDE DEF row
  <2>3. bindings \in [Bindings -> BindingRows \cup {None}] /\ submitted \in [Bindings -> Seq(Submissions)]
    BY DEF ChainInv, ChainTypes
  <2>4. /\ bindings' \in [Bindings -> BindingRows \cup {None}]
        /\ \A c \in Bindings \ {b} : bindings'[c] = bindings[c]
        /\ bindings'[b] = row /\ bindings'[b] # None
    BY <2>1, <2>2, <2>3, ConstantFacts
  <2>5. /\ call' \in [Processes -> Calls] /\ \A y \in Processes \ {x} : call'[y] = call[y]
        /\ call'[x].pc = "previewing" /\ call'[x].binding = b
    BY <1>2, <1>3, <1>5, GoesFacts DEF Chains, Running, Early
  <2>6. CallSound(call[x])'
    BY <2>2, <2>4, <2>5, ConstantFacts DEF CallSound, Running, Early, Withdrawing
  <2>7. SentSound(b)'
    BY <1>3, <1>4, <2>2, <2>4 DEF SentSound, Active
  <2>8. ReadySound(b)'
    <3>1. b \in secrets \/ b \in withdrawn
      BY <1>1, <1>2, <1>3 DEF CallSound
    <3> QED
      BY <1>4, <2>2, <2>4, <3>1 DEF ReadySound
  <2>9. PreparingSound(b)'
    BY <2>5, RunningKeepsIt DEF Running
  <2>10. Admitted(b, bindings'[b].status)
    BY <1>5, <2>2, <2>4
  <2> QED
    BY <1>1, <1>2, <1>4, <2>3, <2>4, <2>5, <2>6, <2>7, <2>8, <2>9, <2>10, ChainStep
<1>6. CASE Fails(x, "SQLITE_CONSTRAINT") /\ UNCHANGED bindings
  <2>1. \E code \in Codes : Fails(x, code)
    BY <1>6 DEF Codes
  <2> QED
    BY <1>1, <1>4, <1>6, <2>1, FailStep DEF durable
<1> QED
  BY <1>2, <1>5, <1>6 DEF BecomeReady

LEMMA StartInvalidateStep ==
    ASSUME PrepaymentAssumption, ChainInv, NEW x \in Processes, StartInvalidate(x)
    PROVE  ChainInv'
<1>1. PICK b \in Holders :
          call' = [call EXCEPT ![x] = [Idle EXCEPT !.pc = "invalidating", !.binding = b]]
  BY DEF StartInvalidate
<1> DEFINE c == [Idle EXCEPT !.pc = "invalidating", !.binding = b]
<1>2. b \in Bindings /\ bindings[b] # None
  BY DEF Holders
<1>3. c \in Calls /\ c.pc = "invalidating" /\ c.binding = b
  <2>1. "invalidating" \in Withdrawing
    BY DEF Withdrawing
  <2> QED
    BY <1>2, <2>1, IdleIsCall DEF Calls
<1>4. call' = [call EXCEPT ![x] = c] /\ call \in [Processes -> Calls] /\ mishaps \in 0 .. MaxMishaps
  BY <1>1 DEF ChainInv, ChainTypes
<1> HIDE DEF c
<1>5. call' \in [Processes -> Calls] /\ \A y \in Processes \ {x} : call'[y] = call[y]
  BY <1>3, <1>4
<1>6. call'[x] = c
  BY <1>4
<1>7. UNCHANGED <<durable, submitted, withdrawn, died>>
  BY DEF StartInvalidate
<1>8. mishaps' \in 0 .. MaxMishaps /\ mishaps' >= mishaps
  BY <1>4, ConstantFacts DEF StartInvalidate
<1>9. CallSound(call[x])'
  BY <1>2, <1>3, <1>6, <1>7, <1>8, ConstantFacts
  DEF CallSound, Running, Early, Withdrawing, durable
<1>10. call'[x].pc \notin Chains /\ call[x].pc \notin Running
  BY <1>3, <1>6 DEF StartInvalidate, Chains, Running, Early
<1> QED
  BY <1>5, <1>7, <1>8, <1>9, <1>10, CallStep

\* An operator's withdrawal, which meets the chain of the same binding at any
\* stage.
LEMMA InvalidateRowStep ==
    ASSUME PrepaymentAssumption, ChainInv, NEW x \in Processes, InvalidateRow(x)
    PROVE  ChainInv'
<1>1. call[x].pc = "invalidating" /\ call \in [Processes -> Calls] /\ call[x] \in Calls
      /\ CallSound(call[x]) /\ mishaps \in 0 .. MaxMishaps
  BY DEF InvalidateRow, ChainInv, ChainTypes
<1>2. PICK b \in Bindings : b = call[x].binding
  BY <1>1 DEF Calls, CallSound
<1>3. bindings[b] # None /\ call[x].pc \notin Running
  BY <1>1, <1>2 DEF CallSound, Withdrawing, Running, Early
<1>4. bindings \in [Bindings -> BindingRows \cup {None}] /\ bindings[b] \in BindingRows
  BY <1>2, <1>3 DEF ChainInv, ChainTypes
<1>5. /\ secrets' = secrets /\ submitted' = submitted /\ died' = died /\ mishaps' = mishaps
      /\ withdrawn' = withdrawn \cup {b} /\ Goes(x, "deleting")
  BY <1>2 DEF InvalidateRow
<1> DEFINE row == [bindings[b] EXCEPT !.status = "INVALIDATED"]
<1>6. bindings' = [bindings EXCEPT ![b] = row]
  BY <1>2 DEF InvalidateRow, Update
<1>7. /\ row \in BindingRows /\ row.mutationDispatched = bindings[b].mutationDispatched
      /\ row.lastStep = bindings[b].lastStep /\ row.status = "INVALIDATED"
  BY <1>4 DEF BindingRows
<1> HIDE DEF row
<1>8. /\ bindings' \in [Bindings -> BindingRows \cup {None}]
      /\ \A c \in Bindings \ {b} : bindings'[c] = bindings[c]
      /\ bindings'[b] = row /\ bindings'[b] # None
  BY <1>4, <1>6, <1>7, ConstantFacts
<1>9. /\ call' \in [Processes -> Calls] /\ \A y \in Processes \ {x} : call'[y] = call[y]
      /\ call'[x].pc = "deleting" /\ call'[x].binding = b
  BY <1>1, <1>2, <1>5, GoesFacts DEF Withdrawing
<1>10. ChainTypes'
  <2>1. secrets' \subseteq Begun' /\ withdrawn' \subseteq Begun' /\ died' \subseteq Begun'
    BY <1>5, <1>8 DEF ChainInv, ChainTypes, Begun
  <2> QED
    BY <1>5, <1>8, <1>9, <2>1 DEF ChainInv, ChainTypes
<1>11. ASSUME NEW y \in Processes PROVE CallSound(call[y])'
  <2>1. CASE y = x
    BY <1>3, <1>5, <1>8, <1>9, <2>1, ConstantFacts DEF CallSound, Running, Early, Withdrawing
  <2>2. CASE y # x
    <3>1. CallSound(call[y]) /\ call'[y] = call[y] /\ call[y] \in Calls
      BY <1>1, <1>9, <2>2 DEF ChainInv
    <3>2. CASE call[y].binding = b
      <4>1. Len(submitted'[b]) = Len(submitted[b])
        BY <1>5
      <4> QED
        BY <1>3, <1>5, <1>7, <1>8, <3>1, <3>2, <4>1 DEF CallSound, Early
    <3>3. CASE call[y].binding \in Bindings \ {b}
      <4> DEFINE d == call[y].binding
      <4>1. bindings'[d] = bindings[d] /\ submitted'[d] = submitted[d]
        BY <1>5, <1>8, <3>3
      <4> QED
        BY <1>5, <3>1, <4>1 DEF CallSound
    <3>4. CASE call[y].binding = None
      <4>1. call[y].pc = "idle"
        BY <3>1, <3>4 DEF CallSound
      <4> QED
        BY <3>1, <3>4, <4>1 DEF CallSound, Running, Early, Withdrawing
    <3> QED
      BY <3>1, <3>2, <3>3, <3>4 DEF Calls
  <2> QED
    BY <2>1, <2>2
<1>12. OneChain'
  <2>1. call'[x].pc \notin Chains
    BY <1>9 DEF Chains, Running, Early
  <2> QED
    BY <1>9, <2>1 DEF ChainInv, OneChain
<1>13. OneHolder'
  <2>1. row.status \notin Active
    BY <1>7 DEF Active
  <2>2. Holders' \subseteq Holders
    BY <1>8, <2>1 DEF Holders
  <2> QED
    BY <2>2 DEF ChainInv, OneHolder
<1>14. ASSUME NEW c \in Bindings, c \in Begun \ died, bindings[c].status = "PREPARING"
       PROVE  \E y \in Processes : call'[y].binding = c /\ call'[y].pc \in Running
  <2>1. PICK y \in Processes : call[y].binding = c /\ call[y].pc \in Running
    BY <1>14 DEF ChainInv, PreparingSound
  <2> QED
    BY <1>3, <1>9, <2>1
<1>15. ASSUME NEW c \in Bindings PROVE (SentSound(c) /\ ReadySound(c) /\ PreparingSound(c))'
  <2>1. SentSound(c) /\ ReadySound(c)
    BY DEF ChainInv
  <2>2. CASE c = b
    <3>1. SentSound(b)'
      BY <1>5, <1>7, <1>8, <2>1, <2>2 DEF SentSound
    <3>2. ReadySound(b)'
      BY <1>5 DEF ReadySound
    <3>3. PreparingSound(b)'
      BY <1>7, <1>8 DEF PreparingSound
    <3> QED
      BY <2>2, <3>1, <3>2, <3>3
  <2>3. CASE c # b
    <3>1. bindings'[c] = bindings[c]
      BY <1>8, <2>3
    <3>2. SentSound(c)'
      BY <1>5, <2>1, <3>1 DEF SentSound
    <3>3. ReadySound(c)'
      BY <1>5, <2>1, <3>1 DEF ReadySound, Begun
    <3>4. PreparingSound(c)'
      BY <1>14, <1>5, <3>1 DEF PreparingSound, Begun
    <3> QED
      BY <3>2, <3>3, <3>4
  <2> QED
    BY <2>2, <2>3
<1> QED
  BY <1>10, <1>11, <1>12, <1>13, <1>15 DEF ChainInv

LEMMA DeleteSecretStep ==
    ASSUME PrepaymentAssumption, ChainInv, NEW x \in Processes, DeleteSecret(x)
    PROVE  ChainInv'
<1>1. call[x].pc = "deleting" /\ call \in [Processes -> Calls] /\ call[x] \in Calls
      /\ CallSound(call[x]) /\ mishaps \in 0 .. MaxMishaps
  BY DEF DeleteSecret, ChainInv, ChainTypes
<1>2. PICK b \in Bindings : b = call[x].binding
  BY <1>1 DEF Calls, CallSound
<1>3. b \in withdrawn /\ call[x].pc \notin Running
  BY <1>1, <1>2 DEF CallSound, Running, Early
<1>4. /\ bindings' = bindings /\ submitted' = submitted /\ withdrawn' = withdrawn
      /\ died' = died /\ mishaps' = mishaps /\ secrets' = secrets \ {b} /\ Ends(x)
  BY <1>2 DEF DeleteSecret
<1>5. /\ call' \in [Processes -> Calls] /\ \A y \in Processes \ {x} : call'[y] = call[y]
      /\ call'[x].pc = "idle" /\ CallSound(call[x])'
  BY <1>1, <1>4, EndsFacts
<1>6. ChainTypes'
  BY <1>4, <1>5 DEF ChainInv, ChainTypes, Begun
<1>7. ASSUME NEW y \in Processes, y # x PROVE CallSound(call[y])'
  <2>1. CallSound(call[y]) /\ call'[y] = call[y]
    BY <1>5, <1>7 DEF ChainInv
  <2> QED
    BY <1>3, <1>4, <2>1 DEF CallSound
<1>8. OneChain'
  <2>1. "idle" \notin Chains
    BY DEF Chains, Running, Early
  <2> QED
    BY <1>5, <2>1 DEF ChainInv, OneChain
<1>9. OneHolder'
  BY <1>4 DEF ChainInv, OneHolder, Holders
<1>10. ASSUME NEW c \in Bindings PROVE (SentSound(c) /\ ReadySound(c) /\ PreparingSound(c))'
  <2>1. SentSound(c) /\ ReadySound(c)
    BY DEF ChainInv
  <2>2. SentSound(c)'
    BY <1>4, <2>1 DEF SentSound
  <2>3. ReadySound(c)'
    BY <1>3, <1>4, <2>1 DEF ReadySound, Begun
  <2>4. PreparingSound(c)'
    <3> SUFFICES ASSUME c \in Begun \ died, bindings[c].status = "PREPARING"
                 PROVE  \E y \in Processes : call'[y].binding = c /\ call'[y].pc \in Running
      BY <1>4 DEF PreparingSound, Begun
    <3>1. PICK y \in Processes : call[y].binding = c /\ call[y].pc \in Running
      BY DEF ChainInv, PreparingSound
    <3> QED
      BY <1>3, <1>5, <3>1
  <2> QED
    BY <2>2, <2>3, <2>4
<1> QED
  BY <1>5, <1>6, <1>7, <1>8, <1>9, <1>10 DEF ChainInv

LEMMA NextStep ==
    ASSUME PrepaymentAssumption, ChainInv, Next
    PROVE  ChainInv'
<1>1. PICK x \in Processes :
          StartPrepare(x) \/ StartInvalidate(x) \/ Continue(x) \/ Throws(x) \/ Crash(x)
  BY DEF Next
<1>2. Continue(x) => ChainInv'
  BY BeginStep, InspectStep, FillSupportedStep, FillUnsupportedStep, SubmitStep, StepAnsweredStep,
     ChainExhaustedStep, WriteStep, BecomeReadyStep, PreviewReadyStep, ChainFailedStep,
     InvalidateRowStep, DeleteSecretStep
  DEF Continue
<1> QED
  BY <1>1, <1>2, StartPrepareStep, StartInvalidateStep, ThrowsStep, CrashStep

LEMMA InitHolds ==
    ASSUME PrepaymentAssumption, Init
    PROVE  ChainInv
<1>1. ChainTypes
  BY IdleIsCall, ConstantFacts DEF Init, ChainTypes, Begun
<1>2. \A x \in Processes : CallSound(call[x])
  BY IdleIsCall DEF Init, CallSound, Running, Early, Withdrawing
<1>3. OneChain
  <2>1. "idle" \notin Chains
    BY DEF Chains, Running, Early
  <2> QED
    BY <2>1, IdleIsCall DEF Init, OneChain
<1>4. OneHolder
  BY DEF Init, OneHolder, Holders
<1>5. \A b \in Bindings : SentSound(b) /\ ReadySound(b) /\ PreparingSound(b)
  BY DEF Init, SentSound, ReadySound, PreparingSound, Begun
<1> QED
  BY <1>1, <1>2, <1>3, <1>4, <1>5 DEF ChainInv

-----------------------------------------------------------------------------
(* Theorems.                                                               *)

\* In every reachable state the stages of the chains, the rows, the files and
\* what left agree (prepare and invalidate of bitrefill-prepayment.ts).
THEOREM ChainInvariant ==
    ASSUME PrepaymentAssumption
    PROVE  Spec => []ChainInv
<1>1. Init => ChainInv
  BY InitHolds
<1>2. ChainInv /\ [Next]_vars => ChainInv'
  <2> SUFFICES ASSUME ChainInv, [Next]_vars PROVE ChainInv'
    OBVIOUS
  <2>1. CASE Next
    BY <2>1, NextStep
  <2>2. CASE UNCHANGED vars
    <3>1. /\ bindings' = bindings /\ secrets' = secrets /\ call' = call
          /\ submitted' = submitted /\ withdrawn' = withdrawn /\ died' = died /\ mishaps' = mishaps
      BY <2>2 DEF vars, durable
    <3>2. ChainTypes' /\ OneChain' /\ OneHolder'
      BY <3>1 DEF ChainInv, ChainTypes, OneChain, OneHolder, Holders, Begun
    <3>3. \A x \in Processes : CallSound(call[x])'
      BY <3>1 DEF ChainInv, CallSound
    <3>4. \A b \in Bindings : (SentSound(b) /\ ReadySound(b) /\ PreparingSound(b))'
      BY <3>1 DEF ChainInv, SentSound, ReadySound, PreparingSound, Begun
    <3> QED
      BY <3>1, <3>2, <3>3, <3>4 DEF ChainInv
  <2> QED
    BY <2>1, <2>2
<1> QED
  BY <1>1, <1>2, PTL DEF Spec

\* The state of the chain has its types, and no chain is longer than it may be
\* (BITREFILL_MCP_MAX_PREPAYMENT_STEPS).
THEOREM ChainTypeCorrect ==
    ASSUME PrepaymentAssumption
    PROVE  Spec => []TypeOK
<1>1. ChainInv => TypeOK
  <2> SUFFICES ASSUME ChainInv PROVE TypeOK
    OBVIOUS
  <2>1. \A x \in Processes : call[x].pc # "idle" => call[x].binding \in Bindings
    BY DEF ChainInv, ChainTypes, Calls, CallSound
  <2>2. ASSUME NEW b \in Bindings PROVE Len(submitted[b]) <= MaxSteps
    <3>1. submitted[b] \in Seq(Submissions) /\ SentSound(b)
      BY DEF ChainInv, ChainTypes
    <3>2. CASE submitted[b] = <<>>
      BY <3>2, ConstantFacts
    <3>3. CASE submitted[b] # <<>>
      <4>1. bindings[b] \in BindingRows /\ Len(submitted[b]) <= bindings[b].lastStep
        BY <3>1, <3>3 DEF SentSound, ChainInv, ChainTypes
      <4>2. bindings[b].lastStep \in 0 .. MaxSteps
        BY <4>1 DEF BindingRows
      <4> QED
        BY <3>1, <4>1, <4>2, ConstantFacts
    <3> QED
      BY <3>2, <3>3
  <2> QED
    BY <2>1, <2>2 DEF ChainInv, ChainTypes, TypeOK
<1> QED
  BY <1>1, ChainInvariant, PTL

\* Whatever left is on record before it left, step by step and each step once
\* (markPrepaymentMutationDispatched before submitPrepaymentForm).
THEOREM SubmittedOnRecord ==
    ASSUME PrepaymentAssumption
    PROVE  Spec => []SubmittedIsOnRecord
<1>1. ChainInv => SubmittedIsOnRecord
  BY DEF ChainInv, SentSound, SubmittedIsOnRecord
<1> QED
  BY <1>1, ChainInvariant, PTL

\* Two chains of one slot have both reached the provider only after an operator
\* withdrew one of them: what left keeps the slot (beginInstrumentPrepayment and
\* the catch of prepare).
THEOREM SecondChainWithdrawn ==
    ASSUME PrepaymentAssumption
    PROVE  Spec => []SecondChainNeedsAnOperator
<1>1. ChainInv => SecondChainNeedsAnOperator
  <2> SUFFICES ASSUME ChainInv, NEW b \in Bindings, NEW c \in Bindings, b # c,
                      submitted[b] # <<>>, submitted[c] # <<>>
               PROVE  b \in withdrawn \/ c \in withdrawn
    BY DEF SecondChainNeedsAnOperator
  <2>1. /\ b \in withdrawn \/ b \in Holders
        /\ c \in withdrawn \/ c \in Holders
    BY DEF ChainInv, SentSound, Holders
  <2> QED
    BY <2>1 DEF ChainInv, OneHolder
<1> QED
  BY <1>1, ChainInvariant, PTL

\* A READY binding has its digest and its bill_payment_id on disk, unless an
\* operator withdrew it (writeBillPaymentId before the row is updated).
THEOREM ReadyLoads ==
    ASSUME PrepaymentAssumption
    PROVE  Spec => []ReadyHasItsSecret
<1>1. ChainInv => ReadyHasItsSecret
  BY DEF ChainInv, ReadySound, ReadyHasItsSecret, Begun
<1> QED
  BY <1>1, ChainInvariant, PTL

\* A binding in PREPARING belongs to a chain that still runs, unless the process
\* of that chain died or its catch could not write: every other end of prepare, whatever threw in it and
\* whatever was withdrawn, gives the slot up, makes it READY or leaves it to an
\* operator.
THEOREM SlotNotAbandoned ==
    ASSUME PrepaymentAssumption
    PROVE  Spec => []SlotIsNotAbandoned
<1>1. ChainInv => SlotIsNotAbandoned
  <2> SUFFICES ASSUME ChainInv, NEW b \in Begun \ died, bindings[b].status = "PREPARING"
               PROVE  \E x \in Processes : call[x].binding = b
    BY DEF SlotIsNotAbandoned
  <2>1. b \in Bindings
    BY DEF Begun
  <2> QED
    BY <2>1 DEF ChainInv, PreparingSound
<1> QED
  BY <1>1, ChainInvariant, PTL

-----------------------------------------------------------------------------
(* What may leave without a human.                                         *)

\* A form that may be answered as it is.
Answerable(fields, step) ==
    \A field \in ToSet(fields) :
        /\ ~ requiresHumanAction(field)
        /\ field.required => isApprovedPrepaymentField(field, step)

\* A form is judged between its reading and its submission, in another step: a
\* chain that is about to submit still holds the form that was judged.
HumanInv ==
    /\ NothingLeavesForAHuman
    /\ \A x \in Processes :
          call[x].pc = "submitting" => Answerable(call[x].fields, call[x].step)

\* A form that is filled has no field that stops it (satisfyPrepaymentFields).
LEMMA SupportedIsAnswerable ==
    ASSUME NEW fields, NEW profile, NEW amount, NEW step,
           satisfyPrepaymentFields(fields, profile, amount, step) = "supported"
    PROVE  Answerable(fields, step)
<1> DEFINE Stops(i) ==
        \/ \/ fields[i].name = AmountField /\ ~ isSupportedBillAmount(fields[i], step)
           \/ ~ Fits(fields[i], amount)
        \/ StopsAt(fields[i], step, profile)
<1>1. {i \in DOMAIN fields : Stops(i)} = {}
  BY Zenon DEF satisfyPrepaymentFields
<1>2. \A i \in DOMAIN fields : ~ StopsAt(fields[i], step, profile)
  BY <1>1
<1> QED
  BY <1>2 DEF Answerable, ToSet, StopsAt

\* A step that submits nothing and brings no call to its submission.
LEMMA QuietStep ==
    ASSUME HumanInv, NEW x \in Processes, submitted' = submitted,
           \A y \in Processes \ {x} : call'[y] = call[y],
           call'[x].pc # "submitting"
    PROVE  HumanInv'
<1>1. NothingLeavesForAHuman'
  BY DEF HumanInv, NothingLeavesForAHuman
<1>2. ASSUME NEW y \in Processes, call'[y].pc = "submitting"
      PROVE  Answerable(call'[y].fields, call'[y].step)
  BY <1>2 DEF HumanInv
<1> QED
  BY <1>1, <1>2 DEF HumanInv

LEMMA FailsQuietly ==
    ASSUME call \in [Processes -> Calls], HumanInv, NEW x \in Processes,
           submitted' = submitted, \E code \in Codes : Fails(x, code)
    PROVE  HumanInv'
  BY FailsFacts, QuietStep

LEMMA EndsQuietly ==
    ASSUME PrepaymentAssumption, call \in [Processes -> Calls], HumanInv, NEW x \in Processes,
           submitted' = submitted, Ends(x)
    PROVE  HumanInv'
  BY EndsFacts, QuietStep

LEMMA GoesQuietly ==
    ASSUME call \in [Processes -> Calls], HumanInv, NEW x \in Processes,
           submitted' = submitted,
           NEW pc \in ({"idle"} \cup Chains \cup Withdrawing) \ {"submitting"}, Goes(x, pc)
    PROVE  HumanInv'
  BY GoesFacts, QuietStep

\* The form is judged and the submission comes next.
LEMMA FillSupportedAnswerable ==
    ASSUME ChainInv, HumanInv, NEW x \in Processes, FillSupported(x)
    PROVE  HumanInv'
<1>1. call \in [Processes -> Calls] /\ call[x] \in Calls
  BY DEF ChainInv, ChainTypes
<1>2. submitted' = submitted /\ call' = [call EXCEPT ![x].pc = "submitting"]
  BY DEF FillSupported, Goes
<1>3. /\ \A y \in Processes \ {x} : call'[y] = call[y]
      /\ call'[x].fields = call[x].fields /\ call'[x].step = call[x].step
  BY <1>1, <1>2 DEF Calls
<1>4. Answerable(call'[x].fields, call'[x].step)
  BY <1>3, SupportedIsAnswerable DEF FillSupported
<1>5. NothingLeavesForAHuman'
  BY <1>2 DEF HumanInv, NothingLeavesForAHuman
<1> QED
  BY <1>3, <1>4, <1>5 DEF HumanInv

\* What leaves is the form that was judged.
LEMMA SubmitAnswerable ==
    ASSUME PrepaymentAssumption, ChainInv, HumanInv, NEW x \in Processes, Submit(x)
    PROVE  HumanInv'
<1>1. /\ call \in [Processes -> Calls] /\ call[x].pc = "submitting"
      /\ submitted \in [Bindings -> Seq(Submissions)]
  BY DEF Submit, ChainInv, ChainTypes
<1>2. PICK b \in Bindings : b = call[x].binding
  BY <1>1, ChainFacts DEF Chains, Running, Early
<1>3. PICK sent \in Submissions :
          /\ sent = [step |-> call[x].step, reported |-> call[x].reported, fields |-> call[x].fields]
          /\ submitted' = [submitted EXCEPT ![b] = Append(@, sent)]
  <2> DEFINE s == [step |-> call[x].step, reported |-> call[x].reported, fields |-> call[x].fields]
  <2>1. s \in Submissions
    <3>1. call[x] \in Calls /\ call[x].step \in 1 .. MaxSteps
      BY <1>1 DEF ChainInv, CallSound
    <3> QED
      BY <3>1 DEF Submissions, Calls
  <2>2. submitted' = [submitted EXCEPT ![b] = Append(@, s)]
    BY <1>2 DEF Submit
  <2> QED
    BY <2>1, <2>2
<1>4. Answerable(sent.fields, sent.step)
  BY <1>1, <1>3 DEF HumanInv
<1>5. ASSUME NEW c \in Bindings, NEW i \in 1 .. Len(submitted'[c])
      PROVE  Answerable(submitted'[c][i].fields, submitted'[c][i].step)
  <2>1. \A d \in Bindings : \A j \in 1 .. Len(submitted[d]) :
            Answerable(submitted[d][j].fields, submitted[d][j].step)
    BY DEF HumanInv, NothingLeavesForAHuman, Answerable
  <2>2. CASE c # b
    BY <1>1, <1>3, <1>5, <2>1, <2>2
  <2>3. CASE c = b
    <3>1. submitted[b] \in Seq(Submissions) /\ submitted'[b] = Append(submitted[b], sent)
      BY <1>1, <1>3
    <3>2. i \in 1 .. Len(submitted[b]) + 1
      BY <1>5, <2>3, <3>1
    <3>3. \/ i \in 1 .. Len(submitted[b]) /\ submitted'[b][i] = submitted[b][i]
          \/ submitted'[b][i] = sent
      BY <3>1, <3>2
    <3> QED
      BY <1>4, <2>1, <2>3, <3>3
  <2> QED
    BY <2>2, <2>3
<1>6. NothingLeavesForAHuman'
  BY <1>5 DEF NothingLeavesForAHuman, Answerable
<1>7. Goes(x, "awaiting")
  BY DEF Submit
<1>8. /\ \A y \in Processes \ {x} : call'[y] = call[y]
      /\ call'[x].pc = "awaiting"
  BY <1>1, <1>7, GoesFacts DEF Chains, Running, Early
<1>9. ASSUME NEW y \in Processes, call'[y].pc = "submitting"
      PROVE  Answerable(call'[y].fields, call'[y].step)
  BY <1>8, <1>9 DEF HumanInv
<1> QED
  BY <1>6, <1>9 DEF HumanInv

\* A form that is read has yet to be judged.
LEMMA InspectAnswerable ==
    ASSUME ChainInv, HumanInv, NEW x \in Processes, InspectProduct(x)
    PROVE  HumanInv'
<1>1. call \in [Processes -> Calls] /\ call[x] \in Calls /\ submitted' = submitted
  BY DEF ChainInv, ChainTypes, InspectProduct
<1>2. CASE \E code \in Codes : Fails(x, code)
  BY <1>1, <1>2, FailsQuietly
<1>3. CASE \E form \in Forms :
          call' = [call EXCEPT ![x].pc = "filling", ![x].fields = extractRequiredFields(form),
                               ![x].step = FirstStep]
  <2>1. (\A y \in Processes \ {x} : call'[y] = call[y]) /\ call'[x].pc = "filling"
    BY <1>1, <1>3 DEF Calls
  <2> QED
    BY <1>1, <2>1, QuietStep
<1> QED
  BY <1>2, <1>3 DEF InspectProduct, Codes

LEMMA StepAnsweredAnswerable ==
    ASSUME ChainInv, HumanInv, NEW x \in Processes, StepAnswered(x)
    PROVE  HumanInv'
<1>1. call \in [Processes -> Calls] /\ call[x] \in Calls /\ submitted' = submitted
  BY DEF ChainInv, ChainTypes, StepAnswered
<1>2. CASE \E code \in Codes : Fails(x, code)
  BY <1>1, <1>2, FailsQuietly
<1>3. CASE Goes(x, "writing")
  BY <1>1, <1>3, GoesQuietly DEF Chains, Running, Early
<1>4. CASE \E answer \in Answers(call[x].step) :
              LET read == parsePrepaymentStepResult(answer, call[x].step,
                              submittedPrepaymentFieldIds(call[x].fields), [product |-> "card"])
              IN  /\ read # Refused /\ read.kind # "final"
                  /\ call' = [call EXCEPT
                          ![x].pc = IF IsLast(call[x].step) THEN "exhausted" ELSE "filling",
                          ![x].fields = read.fields, ![x].step = read.step,
                          ![x].reported = answer.step]
  <2>1. (\A y \in Processes \ {x} : call'[y] = call[y]) /\ call'[x].pc # "submitting"
    BY <1>1, <1>4 DEF Calls
  <2> QED
    BY <1>1, <2>1, QuietStep
<1>5. "BITREFILL_TIMEOUT" \in Codes /\ "PREPAYMENT_STEP_MISMATCH" \in Codes
  BY DEF Codes
<1> QED
  BY <1>2, <1>3, <1>4, <1>5, Zenon DEF StepAnswered

LEMMA HumanStep ==
    ASSUME PrepaymentAssumption, ChainInv, HumanInv, Next
    PROVE  HumanInv'
<1>1. PICK x \in Processes :
          StartPrepare(x) \/ StartInvalidate(x) \/ Continue(x) \/ Throws(x) \/ Crash(x)
  BY DEF Next
<1>2. call \in [Processes -> Calls] /\ call[x] \in Calls
  BY DEF ChainInv, ChainTypes
<1>3. CASE StartPrepare(x) \/ StartInvalidate(x)
  <2>1. submitted' = submitted
    BY <1>3 DEF StartPrepare, StartInvalidate
  <2>2. PICK pc \in {"beginning", "invalidating"} : \E b \in Bindings :
            call' = [call EXCEPT ![x] = [Idle EXCEPT !.pc = pc, !.binding = b]]
    BY <1>3 DEF StartPrepare, StartInvalidate, Holders
  <2>3. (\A y \in Processes \ {x} : call'[y] = call[y]) /\ call'[x].pc = pc
    BY <1>2, <2>2 DEF Idle
  <2> QED
    BY <2>1, <2>3, QuietStep
<1>4. CASE \/ Crash(x) \/ PreviewReady(x) \/ ChainFailed(x) \/ DeleteSecret(x)
  <2>1. submitted' = submitted /\ Ends(x)
    BY <1>4 DEF Crash, PreviewReady, ChainFailed, DeleteSecret
  <2> QED
    BY <1>2, <2>1, EndsQuietly
<1>5. CASE Throws(x) \/ ChainExhausted(x) \/ FillUnsupported(x)
  <2>1. submitted' = submitted
    BY <1>5 DEF Throws, ChainExhausted, FillUnsupported
  <2>2. \E code \in Codes : Fails(x, code)
    BY <1>5, JudgedOneWay DEF Throws, ChainExhausted, FillUnsupported, Codes
  <2> QED
    BY <1>2, <2>1, <2>2, FailsQuietly
<1>6. CASE BeginInstrumentPrepayment(x) \/ WriteBillPaymentId(x) \/ BecomeReady(x) \/ InvalidateRow(x)
  <2>1. submitted' = submitted
    BY <1>6 DEF BeginInstrumentPrepayment, WriteBillPaymentId, BecomeReady, InvalidateRow
  <2>2. \/ Ends(x)
        \/ \E code \in Codes : Fails(x, code)
        \/ Goes(x, "inspecting") \/ Goes(x, "readying") \/ Goes(x, "previewing") \/ Goes(x, "deleting")
    BY <1>6 DEF BeginInstrumentPrepayment, WriteBillPaymentId, BecomeReady, InvalidateRow, Codes
  <2>3. {"inspecting", "readying", "previewing", "deleting"}
            \subseteq ({"idle"} \cup Chains \cup Withdrawing) \ {"submitting"}
    BY DEF Chains, Running, Early, Withdrawing
  <2> QED
    BY <1>2, <2>1, <2>2, <2>3, EndsQuietly, FailsQuietly, GoesQuietly
<1> QED
  BY <1>1, <1>3, <1>4, <1>5, <1>6, InspectAnswerable, FillSupportedAnswerable, SubmitAnswerable,
     StepAnsweredAnswerable
  DEF Continue

\* No form that asks for consent or identity, and none with a required field
\* that was not approved, is ever submitted (satisfyPrepaymentFields before
\* submitPrepaymentForm), whatever forms the provider advertises.
THEOREM LeftToAHuman ==
    ASSUME PrepaymentAssumption
    PROVE  Spec => []NothingLeavesForAHuman
<1>1. ASSUME Init PROVE HumanInv
  <2>1. \A x \in Processes : call[x].pc = "idle"
    BY <1>1, IdleIsCall DEF Init
  <2>2. NothingLeavesForAHuman
    BY <1>1 DEF Init, NothingLeavesForAHuman
  <2> QED
    BY <2>1, <2>2 DEF HumanInv
<1>2. ChainInv /\ HumanInv /\ [Next]_vars => HumanInv'
  <2> SUFFICES ASSUME ChainInv, HumanInv, UNCHANGED vars PROVE HumanInv'
    BY HumanStep
  <2> QED
    BY DEF vars, HumanInv, NothingLeavesForAHuman
<1>3. HumanInv => NothingLeavesForAHuman
  BY DEF HumanInv
<1> QED
  BY <1>1, <1>2, <1>3, ChainInvariant, PTL DEF Spec

=============================================================================
