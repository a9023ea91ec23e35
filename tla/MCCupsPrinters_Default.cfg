CONSTANTS
    c1 = c1
    c2 = c2
    lp = lp
    admin = admin
    Clients = {c1, c2}
    Queues = {"q1"}
    Users = {lp, admin}
    URIs = {"ipp"}
    RemoteURIs = {"ipp"}
    Models = {"laser", "plain"}
    Nameless = {"plain"}
    Kinds = {"addPrinter", "setDeviceURI", "setPPD", "setPPDFromFile",
             "setInfo", "reject", "disable", "deletePrinter", "getPPD",
             "getPPDOptions"}
    MaxCalls = 3
    MaxFaults = 1
SYMMETRY Alike
SPECIFICATION Spec
INVARIANTS
    DefaultOnlyWithoutPpd
CHECK_DEADLOCK FALSE
