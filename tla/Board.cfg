SPECIFICATION Spec
CONSTANTS
    Players = {"A", "B"}
    Seats <- SeatsOf
    Cards = {"hero", "genie", "land", "steal", "raise", "sword"}
    Owner <- OwnerOf
    Creatures = {"hero", "genie"}
    Lands = {"land"}
    StealAuras = {"steal"}
    RaiseAuras = {"raise"}
    Equipment = {"sword"}
    Sources = {"genie"}
    Enduring = {"hero"}
    Legends = {"hero", "genie"}
    InHand = {"steal", "raise"}
    None = "none"
    MaxEffects = 4
INVARIANTS CardsAccountedFor
PROPERTIES PassSettles ControlHasACause RaisedGoesWithItsAura
CHECK_DEADLOCK FALSE
