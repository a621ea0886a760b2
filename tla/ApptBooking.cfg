SPECIFICATION Spec
INVARIANTS
    IInv
    BookedApart
    OneOpenPerBooking
    FreeSlotsAreOffered
CONSTANTS
    Nobody = Nobody
    Employees = {e1}
    Starts = {1, 2, 3}
    Durations = {2}
    SlotLength = 1
    Opening = 1
    Closing = 4
    MaxAppointments = 3
    StaffStatuses = {"confirmed", "no_show"}
