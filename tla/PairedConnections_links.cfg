SPECIFICATION Spec
CONSTANTS
    Devices = {d1}
    Tasks = {t1, t2}
    Conns = {c1, c2}
    None = None
    Environment = {"inbound", "nudge", "dialfail", "forget"}
SYMMETRY Symmetry
VIEW View
INVARIANTS TypeOK SingleConnector ForgottenNotDialed
PROPERTIES NewerLinkSurvives
