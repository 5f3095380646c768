CONSTANTS
    Clients = {c1}
    Listeners = {l1, l2}
    Stoppers = {}
    Pnps = {p}
    Main = main
    Sessions = {s1}
    Spoolers = {h1, h2}
    None = None
    conf <- Auto
    Machines <- Reachable
SPECIFICATION LiveSpec
CHECK_DEADLOCK FALSE
PROPERTIES RequestsAnswered LossResets
