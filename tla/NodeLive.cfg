\* Two nodes that stop twice and are started again.
CONSTANTS
    Node = {1, 2}
    Override = TRUE
    Faults = {}
    MaxStops = 2
SPECIFICATION SupervisedSpec
PROPERTIES
    EveryNodeDispatchable
    OneHostEventually
    PMAServedEventually
