SPECIFICATION Spec
CONSTANTS
    write1 = write1 ruled = ruled memory = memory plan = plan
    escape = escape mcp = mcp prefix = prefix question = question
    Requests = {ruled, plan, question}
    Kind <- MCKind
    Scope <- MCScope
    Answers = {a1, a2}
    Switches = {w1}
    Guardian = TRUE
    Timeouts = TRUE
    Free = Free
CHECK_DEADLOCK FALSE
INVARIANTS PromptsAreOrderly DenialIsFinal UserDecides
 
