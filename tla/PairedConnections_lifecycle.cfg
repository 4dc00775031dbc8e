SPECIFICATION Spec
CONSTANTS
    Devices = {d1}
    Tasks = {t1, t2}
    Conns = {c1, c2}
    None = None
    Environment = {"restart", "rotate", "shutdown", "pair", "repair", "nudge"}
SYMMETRY Symmetry
VIEW View
PROPERTIES NewerLinkSurvives
