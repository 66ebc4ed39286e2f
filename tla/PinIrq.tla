------------------------------- MODULE PinIrq -------------------------------
(***************************************************************************)
(* The interrupt handler table of the pin driver, src/drivers/drv_gpio.c,  *)
(* reached through the wrappers rt_pin_attach_irq and rt_pin_detach_irq.   *)
(*                                                                         *)
(* An entry of pin_irq_hdr_tab holds a pin, a handler, a mode and an       *)
(* argument.  The application uses one mode and no argument, so an entry   *)
(* is the handler alone, and NoHandler stands for an entry whose pin is    *)
(* -1.  Each driver call runs with interrupts disabled: it is one step.    *)
(***************************************************************************)

\* The entry of a line nothing is attached to (pin == -1, hdr == RT_NULL).
NoHandler == "none"

\* rt_pin_attach_irq: an entry in use is left alone.  The driver answers
\* RT_EOK when it holds the same handler and RT_EBUSY when it holds another;
\* no caller of this program looks at the answer.
Attach(tab, line, hdr) ==
    IF tab[line] = NoHandler THEN [tab EXCEPT ![line] = hdr] ELSE tab

\* rt_pin_detach_irq: the entry is emptied; the EXTI line stays enabled.
Detach(tab, line) == [tab EXCEPT ![line] = NoHandler]
=============================================================================
